---------------------------- MODULE Spec2Model ----------------------------
(***************************************************************************)
(* Verification model of the Write compiler pipeline:                      *)
(*   - Lexer.scan                (src/src/compiler/lexer.py)               *)
(*   - writec.main, the driver   (src/src/compiler/writec.py)              *)
(*   - Analyzer                  (src/src/compiler/semantic.py)            *)
(*   - Parser                    (src/src/compiler/parser.py)              *)
(*   - Codegen                   (src/src/compiler/codegen.py)             *)
(* Each component is a state machine over its own variables; a             *)
(* specification of one component keeps the other components idle.         *)
(***************************************************************************)
EXTENDS Integers, Sequences, FiniteSets, TLC

(***************************************************************************)
(* Bounds                                                                  *)
(***************************************************************************)
MaxLen == 3        \* longest source text handed to the lexer
MaxScans == 2      \* scan() calls made on one Lexer instance
MaxRc == 2         \* largest exit status of the binary the driver runs
MaxStmts == 3      \* statements of one analysed program (statement forms)
MaxDepth == 2      \* nesting depth of open blocks
MaxCoreFns == 1    \* functions of a program of the statement-form specification
MaxFns == 2        \* functions of a program of the call specification
MaxParams == 2     \* parameters of one program of the call specification
MaxArgs == 2       \* arguments of one call
MaxCalls == 2      \* call statements of one program of the call specification
MaxSize == 1       \* largest literal container size declared
MaxExprNodes == 4  \* nodes of an expression handed to _fold_expr
MaxFolds == 2      \* _fold_expr calls on one expression
MaxAnalyses == 2   \* analyze() calls on one Analyzer instance
MaxGenStmts == 2   \* top-level statements of a program handed to the generator
MaxWords == 3      \* words of a source line handed to lexer and parser
MaxRhs == 3        \* words of a right-hand side after its first word
MaxTail == 2       \* words after the beginning of a comparison phrase

VARIABLES
    \* ---- Lexer instance fields (lexer.py:94-101) and the call's position
    source, pos, line, col, tokens, start, lexStatus, scans,
    \* ---- writec.main: position, arguments and observable effects
    drvPc, drvArgs, drvOutcome, drvStages, drvWritten, drvDiags, drvExit,
    \* ---- Analyzer instance fields (semantic.py:54-56) and analyze()'s position
    env_stack, functions, function_depth,
    program,      \* program.functions: the Function headers handed to analyze()
    regIdx,       \* loop index of _register_functions
    fnIdx,        \* loop index of `for fn in program.functions` in analyze()
    ctl,          \* the blocks whose body is being walked (the recursion of _stmt)
    nodes,        \* statements walked so far
    last,         \* the node handed to the step just taken
    anaStatus, anaErr,
    \* ---- analyze() on a whole tree: the Program object and the calls made
    ast,          \* the Program object handed to the latest analyze() call
    astIn,        \* that Program as it was when the call was made
    analyzeCalls, \* analyze() calls made on the instance
    \* ---- _fold_expr on one expression object
    foldIn,       \* the expression as it was handed to the first _fold_expr
    foldTree,     \* the expression object now
    foldCalls,    \* _fold_expr calls made on it
    \* ---- Parser instance fields (parser.py:41-43) and the call's position
    ptokens,      \* self.tokens
    current,      \* self.current (0-based index of the token in hand)
    parsed,       \* parse(): the local list `stmts`
    parStatus, parErr,
    cmpSave,      \* _comparison_op: self.current just after the keyword `is`
    cmpIdx,       \* _comparison_op: phrases of `seqs` tried so far
    cmpOp,        \* _comparison_op: the operator returned
    \* ---- _expr on one expression in one scope stack
    exprIn,       \* the expression handed to _expr
    exprOut,      \* the type returned, or the SemanticError raised
    \* ---- Codegen instance fields (codegen.py:16-18) and the call's position
    lines, indent,
    genEnv,       \* self.env
    genStatus,
    genIdx        \* loop index of `for stmt in program.statements` in generate()

lexVars == <<source, pos, line, col, tokens, start, lexStatus, scans>>
drvVars == <<drvPc, drvArgs, drvOutcome, drvStages, drvWritten, drvDiags, drvExit>>
anaVars == <<env_stack, functions, function_depth, program, regIdx, fnIdx, ctl,
             nodes, last, anaStatus, anaErr>>
astVars == <<ast, astIn, analyzeCalls>>
foldVars == <<foldIn, foldTree, foldCalls>>
parVars == <<ptokens, current, parsed, parStatus, parErr, cmpSave, cmpIdx, cmpOp>>
typVars == <<exprIn, exprOut>>
genVars == <<lines, indent, genEnv, genStatus, genIdx>>
vars == <<lexVars, drvVars, anaVars, astVars, foldVars, parVars, typVars, genVars>>

\* What a step of one component leaves alone.
LexFrame == UNCHANGED <<drvVars, anaVars, astVars, foldVars, parVars, typVars, genVars>>
DrvFrame == UNCHANGED <<lexVars, anaVars, astVars, foldVars, parVars, typVars, genVars>>
AnaFrame == UNCHANGED <<lexVars, drvVars, astVars, foldVars, parVars, typVars, genVars>>
AstFrame == UNCHANGED <<lexVars, drvVars, foldVars, parVars, typVars, genVars>>
FoldFrame == UNCHANGED <<lexVars, drvVars, anaVars, astVars, parVars, typVars, genVars>>
ParFrame == UNCHANGED <<lexVars, drvVars, anaVars, astVars, foldVars, typVars, genVars>>
TypFrame == UNCHANGED <<lexVars, drvVars, anaVars, astVars, foldVars, parVars, genVars>>
GenFrame == UNCHANGED <<lexVars, drvVars, anaVars, astVars, foldVars, parVars, typVars>>

(***************************************************************************)
(* Generic helpers                                                         *)
(***************************************************************************)
RECURSIVE SeqsUpTo(_, _)
SeqsUpTo(S, n) ==
    IF n = 0 THEN {<<>>}
    ELSE LET shorter == SeqsUpTo(S, n - 1)
         IN  shorter \cup {Append(s, x) : s \in {t \in shorter : Len(t) = n - 1}, x \in S}

(***************************************************************************)
(* LEXER                                                                   *)
(***************************************************************************)
\* Characters the bounded source texts are built from.  "$" stands for any
\* character no branch of scan() handles.
Alphabet ==
    {" ", "\n", "#", "\"", "\\", "1", ".", "a", "s", "o", "f", "=", "+", ":", "[", "]", "$"}
Digits == {"1"}
Letters == {"a", "s", "o", "f"}
Blank == {" ", "\t", "\r"}
NUL == "NUL"       \* the "\\0" sentinel of _peek

\* The keyword set, each word as its characters.
KEYWORDS ==
    {<<"s", "e", "t">>, <<"t", "o">>, <<"p", "r", "i", "n", "t">>,
     <<"m", "a", "k", "e">>, <<"i", "n", "p", "u", "t">>, <<"a", "s">>,
     <<"i", "f">>, <<"e", "l", "s", "e">>, <<"e", "n", "d">>,
     <<"t", "h", "e", "n">>, <<"w", "h", "i", "l", "e">>, <<"d", "o">>,
     <<"f", "o", "r">>, <<"f", "r", "o", "m">>, <<"a", "n", "d">>,
     <<"o", "r">>, <<"n", "o", "t">>, <<"i", "s">>,
     <<"g", "r", "e", "a", "t", "e", "r">>, <<"l", "e", "s", "s">>,
     <<"e", "q", "u", "a", "l">>, <<"t", "h", "a", "n">>, <<"a", "d", "d">>,
     <<"s", "u", "b", "t", "r", "a", "c", "t">>,
     <<"m", "u", "l", "t", "i", "p", "l", "y">>,
     <<"d", "i", "v", "i", "d", "e">>, <<"p", "o", "w", "e", "r">>,
     <<"i", "n", "t">>, <<"f", "l", "o", "a", "t">>,
     <<"s", "t", "r", "i", "n", "g">>, <<"b", "o", "o", "l">>}

IsDigit(c) == c \in Digits
IsAlpha(c) == c \in Letters
IsAlnum(c) == IsDigit(c) \/ IsAlpha(c)

Sources == SeqsUpTo(Alphabet, MaxLen)

\* A lexer state as a record, so that the helper methods are operators.
LexState == [pos |-> pos, line |-> line, col |-> col, tokens |-> tokens, start |-> start]

Token(kind, lexeme, ln, cl) == [kind |-> kind, lexeme |-> lexeme, line |-> ln, col |-> cl]

_is_at_end(src, st) == st.pos >= Len(src)

_peek(src, st) == IF _is_at_end(src, st) THEN NUL ELSE src[st.pos + 1]

_peek_next(src, st) == IF st.pos + 1 >= Len(src) THEN NUL ELSE src[st.pos + 2]

\* _advance: returns the state after consuming one character.
_advance(st) == [st EXCEPT !.pos = @ + 1, !.col = @ + 1]

\* source[a:b] with Python's 0-based half-open slice
Slice(src, a, b) == SubSeq(src, a + 1, b)

_add(src, st, kind) ==
    [st EXCEPT !.tokens = Append(@, Token(kind, Slice(src, st.start, st.pos), st.line, st.col))]

_add_lexeme(st, kind, lexeme) ==
    [st EXCEPT !.tokens = Append(@, Token(kind, lexeme, st.line, st.col))]

RECURSIVE _skip_until_newline(_, _)
_skip_until_newline(src, st) ==
    IF ~_is_at_end(src, st) /\ _peek(src, st) # "\n"
    THEN _skip_until_newline(src, _advance(st))
    ELSE st

\* _string: result is [st, ok]; ok = FALSE is the raise of "Unterminated string".
RECURSIVE _string(_, _, _)
_string(src, st, escaped) ==
    IF _is_at_end(src, st) THEN [st |-> st, ok |-> FALSE]
    ELSE LET ch == src[st.pos + 1]
             s1 == _advance(st)
         IN  IF escaped THEN _string(src, s1, FALSE)
             ELSE IF ch = "\\" THEN _string(src, s1, TRUE)
             ELSE IF ch = "\""
                  THEN [st |-> _add_lexeme(s1, "STRING", Slice(src, s1.start + 1, s1.pos - 1)),
                        ok |-> TRUE]
             ELSE IF ch = "\n"
                  THEN _string(src, [s1 EXCEPT !.line = @ + 1, !.col = 1], FALSE)
             ELSE _string(src, s1, FALSE)

RECURSIVE DigitRun(_, _)
DigitRun(src, st) ==
    IF IsDigit(_peek(src, st)) THEN DigitRun(src, _advance(st)) ELSE st

_number(src, st) ==
    LET s1 == DigitRun(src, st)
        s2 == IF _peek(src, s1) = "." /\ IsDigit(_peek_next(src, s1))
              THEN DigitRun(src, _advance(s1))
              ELSE s1
    IN  _add(src, s2, "NUMBER")

RECURSIVE AlnumRun(_, _)
AlnumRun(src, st) ==
    IF IsAlnum(_peek(src, st)) \/ _peek(src, st) = "_"
    THEN AlnumRun(src, _advance(st))
    ELSE st

_identifier(src, st) ==
    LET s1 == AlnumRun(src, st)
        text == Slice(src, s1.start, s1.pos)
    IN  IF text \in KEYWORDS THEN _add_lexeme(s1, "KEYWORD", text)
        ELSE _add_lexeme(s1, "IDENT", text)

\* _match: [st, hit]
_match(src, st, expected) ==
    IF _is_at_end(src, st) \/ src[st.pos + 1] # expected
    THEN [st |-> st, hit |-> FALSE]
    ELSE [st |-> _advance(st), hit |-> TRUE]

TwoCharOps == {"=", "!", ">", "<"}
TwoCharKind(c, hit) ==
    CASE c = "=" -> IF hit THEN "EQEQ" ELSE "EQ"
      [] c = "!" -> IF hit THEN "NEQ" ELSE "BANG"
      [] c = ">" -> IF hit THEN "GTE" ELSE "GT"
      [] c = "<" -> IF hit THEN "LTE" ELSE "LT"

SingleOps == {"&", "|", "+", "-", "*", "/", "^", "(", ")", ","}
SingleKind(c) ==
    CASE c = "&" -> "AMP"   [] c = "|" -> "PIPE"  [] c = "+" -> "PLUS"
      [] c = "-" -> "MINUS" [] c = "*" -> "STAR"  [] c = "/" -> "SLASH"
      [] c = "^" -> "CARET" [] c = "(" -> "LPAREN" [] c = ")" -> "RPAREN"
      [] c = "," -> "COMMA"

\* The final statement pair of scan(): append the EOF token.
AppendEOF_NoAppend(toks, ln, cl) == toks
AppendEOF(toks, ln, cl) == Append(toks, Token("EOF", <<>>, ln, cl))

SetLex(st) ==
    /\ pos' = st.pos
    /\ line' = st.line
    /\ col' = st.col
    /\ tokens' = st.tokens
    /\ start' = st.start

\* Lexer(source): the constructor
LexInit ==
    /\ source \in Sources
    /\ pos = 0 /\ line = 1 /\ col = 1
    /\ tokens = <<>>
    /\ start = 0
    /\ lexStatus = "new"
    /\ scans = 0

LexIdle ==
    /\ source = <<>>
    /\ pos = 0 /\ line = 1 /\ col = 1
    /\ tokens = <<>>
    /\ start = 0
    /\ lexStatus = "idle"
    /\ scans = 0

\* A call of scan(): on a fresh instance, or again on one that has returned.
ScanCall ==
    /\ lexStatus \in {"new", "returned"}
    /\ scans < MaxScans
    /\ lexStatus' = "scanning"
    /\ scans' = scans + 1
    /\ UNCHANGED <<source, pos, line, col, tokens, start>>
    /\ LexFrame

\* One iteration of the while loop: the character just consumed and the
\* state after `self.start = self.pos; c = self._advance()`.
Cur == source[pos + 1]
Adv == _advance([LexState EXCEPT !.start = pos])
InLoop == lexStatus = "scanning" /\ ~_is_at_end(source, LexState)

ScanBlank ==
    /\ InLoop /\ Cur \in Blank
    /\ SetLex(Adv)
    /\ UNCHANGED <<source, lexStatus, scans>>
    /\ LexFrame

ScanNewline ==
    /\ InLoop /\ Cur = "\n"
    /\ SetLex([Adv EXCEPT !.line = @ + 1, !.col = 1])
    /\ UNCHANGED <<source, lexStatus, scans>>
    /\ LexFrame

ScanComment ==
    /\ InLoop /\ Cur = "#"
    /\ SetLex(_skip_until_newline(source, Adv))
    /\ UNCHANGED <<source, lexStatus, scans>>
    /\ LexFrame

ScanString ==
    /\ InLoop /\ Cur = "\""
    /\ LET r == _string(source, Adv, FALSE)
       IN  /\ SetLex(r.st)
           /\ lexStatus' = IF r.ok THEN lexStatus ELSE "LexerError"
    /\ UNCHANGED <<source, scans>>
    /\ LexFrame

ScanNumber ==
    /\ InLoop /\ IsDigit(Cur)
    /\ SetLex(_number(source, Adv))
    /\ UNCHANGED <<source, lexStatus, scans>>
    /\ LexFrame

ScanIdentifier ==
    /\ InLoop /\ (IsAlpha(Cur) \/ Cur = "_")
    /\ SetLex(_identifier(source, Adv))
    /\ UNCHANGED <<source, lexStatus, scans>>
    /\ LexFrame

ScanTwoCharOp ==
    /\ InLoop /\ Cur \in TwoCharOps
    /\ LET m == _match(source, Adv, "=")
       IN  SetLex(_add(source, m.st, TwoCharKind(Cur, m.hit)))
    /\ UNCHANGED <<source, lexStatus, scans>>
    /\ LexFrame

ScanSingleOp ==
    /\ InLoop /\ Cur \in SingleOps
    /\ SetLex(_add(source, Adv, SingleKind(Cur)))
    /\ UNCHANGED <<source, lexStatus, scans>>
    /\ LexFrame

ScanUnhandled ==
    /\ InLoop
    /\ Cur \notin Blank \cup {"\n", "#", "\"", "_"} \cup TwoCharOps \cup SingleOps
    /\ ~IsDigit(Cur) /\ ~IsAlpha(Cur)
    /\ SetLex(Adv)
    /\ lexStatus' = "LexerError"
    /\ UNCHANGED <<source, scans>>
    /\ LexFrame

ScanReturn ==
    /\ lexStatus = "scanning" /\ _is_at_end(source, LexState)
    /\ tokens' = AppendEOF(tokens, line, col)
    /\ lexStatus' = "returned"
    /\ UNCHANGED <<source, pos, line, col, start, scans>>
    /\ LexFrame

LexStep ==
    \/ ScanCall \/ ScanBlank \/ ScanNewline \/ ScanComment \/ ScanString
    \/ ScanNumber \/ ScanIdentifier \/ ScanTwoCharOp \/ ScanSingleOp
    \/ ScanUnhandled \/ ScanReturn

(***************************************************************************)
(* DRIVER  writec.main                                                     *)
(***************************************************************************)
StageOrder == <<"lex", "parse", "analyze", "codegen">>

\* What the environment decides: whether the input file exists, which stage
\* (if any) raises on its content, whether a C++ compiler is found, whether
\* the native compilation succeeds and the exit status of the binary.
DrvOutcomes ==
    [exists : BOOLEAN,
     raises : {"none", "lex", "parse", "analyze", "codegen"},
     cc : BOOLEAN, compiled : BOOLEAN, rc : 0..MaxRc]

DrvArgSets == [compile : BOOLEAN, run : BOOLEAN]

NoExit == -1      \* main has not returned yet

DrvInit ==
    /\ drvPc = "args"
    /\ drvArgs \in DrvArgSets
    /\ drvOutcome \in DrvOutcomes
    /\ drvStages = <<>>
    /\ drvWritten = FALSE
    /\ drvDiags = 0
    /\ drvExit = NoExit

DrvIdle ==
    /\ drvPc = "idle"
    /\ drvArgs = [compile |-> FALSE, run |-> FALSE]
    /\ drvOutcome = [exists |-> FALSE, raises |-> "none", cc |-> FALSE,
                     compiled |-> FALSE, rc |-> 0]
    /\ drvStages = <<>>
    /\ drvWritten = FALSE
    /\ drvDiags = 0
    /\ drvExit = NoExit

\* writec.py:55-56
DrvArgsStep ==
    /\ drvPc = "args"
    /\ drvArgs' = IF drvArgs.run THEN [drvArgs EXCEPT !.compile = TRUE] ELSE drvArgs
    /\ drvPc' = "read"
    /\ UNCHANGED <<drvOutcome, drvStages, drvWritten, drvDiags, drvExit>>
    /\ DrvFrame

\* writec.py:58-62
DrvRead ==
    /\ drvPc = "read"
    /\ IF drvOutcome.exists
       THEN /\ drvPc' = "lex"
            /\ UNCHANGED <<drvDiags, drvExit>>
       ELSE /\ drvPc' = "done"
            /\ drvDiags' = drvDiags + 1
            /\ drvExit' = 1
    /\ UNCHANGED <<drvArgs, drvOutcome, drvStages, drvWritten>>
    /\ DrvFrame

\* Where control goes after a stage of the try block: to the next statement,
\* or, when the stage raised, to the except clause (log_error; return 1).
AfterStage_Swallow(raised, next) ==
    [pc |-> next, diags |-> IF raised THEN 1 ELSE 0, exit |-> NoExit]
AfterStage(raised, next) ==
    IF raised THEN [pc |-> "done", diags |-> 1, exit |-> 1]
    ELSE [pc |-> next, diags |-> 0, exit |-> NoExit]

RunStage(stage, next) ==
    /\ drvStages' = Append(drvStages, stage)
    /\ LET r == AfterStage(drvOutcome.raises = stage, next)
       IN  /\ drvPc' = r.pc
           /\ drvDiags' = drvDiags + r.diags
           /\ drvExit' = r.exit
    /\ UNCHANGED <<drvArgs, drvOutcome, drvWritten>>
    /\ DrvFrame

\* writec.py:65-66
DrvLex == drvPc = "lex" /\ RunStage("lex", "parse")
\* writec.py:67-68
DrvParse == drvPc = "parse" /\ RunStage("parse", "analyze")
\* writec.py:69-70
DrvAnalyze == drvPc = "analyze" /\ RunStage("analyze", "codegen")
\* writec.py:71-72
DrvCodegen == drvPc = "codegen" /\ RunStage("codegen", "write")

\* writec.py:77-80, 91
DrvWrite ==
    /\ drvPc = "write"
    /\ drvWritten' = TRUE
    /\ IF drvArgs.compile
       THEN drvPc' = "cc" /\ UNCHANGED drvExit
       ELSE drvPc' = "done" /\ drvExit' = 0
    /\ UNCHANGED <<drvArgs, drvOutcome, drvStages, drvDiags>>
    /\ DrvFrame

\* writec.py:81 and _choose_cc: SystemExit(message) ends the process with status 1
DrvChooseCC ==
    /\ drvPc = "cc"
    /\ IF drvOutcome.cc
       THEN drvPc' = "compile" /\ UNCHANGED drvExit
       ELSE drvPc' = "done" /\ drvExit' = 1
    /\ UNCHANGED <<drvArgs, drvOutcome, drvStages, drvWritten, drvDiags>>
    /\ DrvFrame

\* writec.py:82-87, 91
DrvCompile ==
    /\ drvPc = "compile"
    /\ IF ~drvOutcome.compiled
       THEN drvPc' = "done" /\ drvExit' = 1
       ELSE IF drvArgs.run
            THEN drvPc' = "run" /\ UNCHANGED drvExit
            ELSE drvPc' = "done" /\ drvExit' = 0
    /\ UNCHANGED <<drvArgs, drvOutcome, drvStages, drvWritten, drvDiags>>
    /\ DrvFrame

\* writec.py:87-90
DrvRun ==
    /\ drvPc = "run"
    /\ drvPc' = "done"
    /\ drvExit' = drvOutcome.rc
    /\ UNCHANGED <<drvArgs, drvOutcome, drvStages, drvWritten, drvDiags>>
    /\ DrvFrame

DrvStep ==
    \/ DrvArgsStep \/ DrvRead \/ DrvLex \/ DrvParse \/ DrvAnalyze \/ DrvCodegen
    \/ DrvWrite \/ DrvChooseCC \/ DrvCompile \/ DrvRun

(***************************************************************************)
(* ANALYZER  semantic.py                                                   *)
(***************************************************************************)
NoType == "<none>"          \* Python None where a type name is optional
NoSize == <<>>              \* TypeInfo.size = None;  <<n>> is the size n
NoExpr == [k |-> "None"]    \* Python None where an expression is optional

Numeric == {"int", "float"}
LogicTypes == {"int", "float", "bool"}
AllTypes == {"int", "float", "string", "bool", "list", "array"}
ContainerTypes == {"list", "array"}

TypeInfo(name, size) == [name |-> name, size |-> size]
NoBinding == [name |-> "<unbound>", size |-> NoSize]   \* dict.get / _lookup returning None

\* ---- AST expression nodes (ast.py) ----
Number(value) == [k |-> "Number", value |-> value]
String(value) == [k |-> "String", value |-> value]
Var(name) == [k |-> "Var", name |-> name]
Index(name, index) == [k |-> "Index", name |-> name, index |-> index]
Unary(op, right) == [k |-> "Unary", op |-> op, right |-> right]
Binary(left, op, right) == [k |-> "Binary", left |-> left, op |-> op, right |-> right]
Power(base, exponent) == [k |-> "Power", base |-> base, exponent |-> exponent]

\* ---- number lexemes: sequences of characters, as the lexer slices them ----
DigitChars == <<"0", "1", "2", "3", "4", "5", "6", "7", "8", "9">>
IsDigitChar(c) == \E i \in DOMAIN DigitChars : DigitChars[i] = c
DigitVal(c) == (CHOOSE i \in DOMAIN DigitChars : DigitChars[i] = c) - 1

_is_float_literal(lexeme) == \E i \in DOMAIN lexeme : lexeme[i] = "."

RECURSIVE DigitsValue(_)
DigitsValue(ds) ==
    IF ds = <<>> THEN 0
    ELSE 10 * DigitsValue(SubSeq(ds, 1, Len(ds) - 1)) + DigitVal(ds[Len(ds)])

\* int(lexeme): <<n>>, or <<>> when Python raises ValueError
PyInt(lexeme) ==
    LET neg == lexeme # <<>> /\ lexeme[1] = "-"
        ds == IF neg THEN Tail(lexeme) ELSE lexeme
    IN  IF ds # <<>> /\ \A i \in DOMAIN ds : IsDigitChar(ds[i])
        THEN <<IF neg THEN 0 - DigitsValue(ds) ELSE DigitsValue(ds)>>
        ELSE <<>>

_literal_int_value(expr) ==
    IF expr.k = "Number" /\ ~_is_float_literal(expr.value)
    THEN PyInt(expr.value)
    ELSE <<>>

\* ---- env helpers ----
EmptyEnv == [n \in {} |-> NoBinding]

EnvGet(env, name) == IF name \in DOMAIN env THEN env[name] ELSE NoBinding

EnvSet(stack, name, info) ==
    [stack EXCEPT ![Len(stack)] = (name :> info) @@ @]

_env(stack) == stack[Len(stack)]

_push_env_NoPush(stack) == stack
_push_env(stack) == Append(stack, EmptyEnv)

_pop_env_NoPop(stack) == stack
_pop_env(stack) == IF Len(stack) > 1 THEN SubSeq(stack, 1, Len(stack) - 1) ELSE stack

RECURSIVE LookupFrom(_, _, _)
LookupFrom(stack, i, name) ==
    IF i = 0 THEN NoBinding
    ELSE IF name \in DOMAIN stack[i] THEN stack[i][name]
    ELSE LookupFrom(stack, i - 1, name)

_lookup(stack, name) == LookupFrom(stack, Len(stack), name)

_is_numeric(typ) == typ \in Numeric \/ typ \in {"auto", NoType}
_is_logic(typ) == typ \in LogicTypes \/ typ \in {"auto", NoType}

\* ---- results of the checking methods: a value, or the SemanticError raised ----
Ok(t) == [ok |-> TRUE, t |-> t, err |-> ""]
Err(msg) == [ok |-> FALSE, t |-> "", err |-> msg]

_ensure_assignable_Strict(target_type, expr_type) ==
    IF target_type = expr_type THEN Ok("")
    ELSE IF target_type = "float" /\ expr_type \in {"int", "float"} THEN Ok("")
    ELSE IF target_type \in Numeric /\ expr_type \in Numeric THEN Ok("")
    ELSE Err("cannot assign")
_ensure_assignable(target_type, expr_type) ==
    IF target_type \in {NoType, "auto"} THEN Ok("")
    ELSE IF expr_type \in {NoType, "auto"} THEN Ok("")
    ELSE IF target_type = expr_type THEN Ok("")
    ELSE IF target_type = "float" /\ expr_type \in {"int", "float"} THEN Ok("")
    ELSE IF target_type \in Numeric /\ expr_type \in Numeric THEN Ok("")
    ELSE Err("cannot assign")

ArithOps == {"+", "-", "*", "/", "add", "subtract", "multiply", "divide"}

\* The bounds test shared by Index reads and IndexAssign writes.
OutOfBounds_OffByOne(idx, size) == idx < 0 \/ idx > size
OutOfBounds(idx, size) == idx < 0 \/ idx >= size

\* The checks of an index against its base (semantic.py:194-208 and 264-278).
IndexCheck(stack, name, index, idx_type) ==
    LET base == _lookup(stack, name)
        lit == _literal_int_value(index)
    IN  IF base = NoBinding THEN Err("not declared")
        ELSE IF base.name \notin ContainerTypes THEN Err("indexing requires list/array")
        ELSE IF ~idx_type.ok THEN idx_type
        ELSE IF idx_type.t \notin Numeric THEN Err("index must be numeric")
        ELSE IF base.size # NoSize /\ lit # <<>> /\ OutOfBounds(lit[1], base.size[1])
             THEN Err("index out of bounds")
        ELSE Ok("float")

RECURSIVE _expr(_, _)
_expr(stack, node) ==
    CASE node.k = "Number" ->
            Ok(IF _is_float_literal(node.value) THEN "float" ELSE "int")
      [] node.k = "String" -> Ok("string")
      [] node.k = "Var" ->
            LET t == _lookup(stack, node.name)
            IN  IF t = NoBinding THEN Err("undefined variable")
                ELSE Ok(IF t.name = NoType THEN "auto" ELSE t.name)
      [] node.k = "Index" ->
            LET base == _lookup(stack, node.name)
            IN  IF base = NoBinding \/ base.name \notin ContainerTypes
                THEN IndexCheck(stack, node.name, node.index, Ok(""))
                ELSE IndexCheck(stack, node.name, node.index, _expr(stack, node.index))
      [] node.k = "Unary" ->
            LET r == _expr(stack, node.right)
            IN  IF ~r.ok THEN r
                ELSE IF node.op \in {"+", "-"}
                     THEN IF ~_is_numeric(r.t) THEN Err("unary requires numeric operand")
                          ELSE Ok(r.t)
                ELSE IF node.op \in {"!", "not"}
                     THEN IF ~_is_logic(r.t) THEN Err("unary requires logic operand")
                          ELSE Ok("bool")
                ELSE Err("unhandled unary op")
      [] node.k = "Binary" ->
            LET l == _expr(stack, node.left)
                r == _expr(stack, node.right)
                op == node.op
            IN  IF ~l.ok THEN l
                ELSE IF ~r.ok THEN r
                ELSE IF op \in ArithOps
                     THEN IF ~_is_numeric(l.t) \/ ~_is_numeric(r.t)
                          THEN Err("arithmetic requires numeric operands")
                          ELSE Ok(IF "float" \in {l.t, r.t} THEN "float" ELSE l.t)
                ELSE IF op \in {"==", "!="}
                     THEN IF l.t = r.t THEN Ok("bool")
                          ELSE IF _is_numeric(l.t) /\ _is_numeric(r.t) THEN Ok("bool")
                          ELSE Err("incompatible types for equality")
                ELSE IF op \in {">", "<", ">=", "<="}
                     THEN IF _is_numeric(l.t) /\ _is_numeric(r.t) THEN Ok("bool")
                          ELSE Err("ordering comparison requires numeric operands")
                ELSE IF op \in {"and", "&", "or", "|"}
                     THEN IF ~_is_logic(l.t) \/ ~_is_logic(r.t)
                          THEN Err("logical requires logic operands")
                          ELSE Ok("bool")
                ELSE Err("unhandled binary op")
      [] node.k = "Power" ->
            LET b == _expr(stack, node.base)
                e == _expr(stack, node.exponent)
            IN  IF ~b.ok THEN b
                ELSE IF ~e.ok THEN e
                ELSE IF ~_is_numeric(b.t) \/ ~_is_numeric(e.t)
                     THEN Err("power requires numeric operands")
                     ELSE Ok(IF "float" \in {b.t, e.t} THEN "float" ELSE "int")
      [] OTHER -> Err("Unhandled expr")

\* ---- AST statement nodes (ast.py) ----
Declaration(name, type, size) ==
    [k |-> "Declaration", name |-> name, type |-> type, size |-> size]
Input(name, type) == [k |-> "Input", name |-> name, type |-> type]
Assign(name, expr, type) == [k |-> "Assign", name |-> name, expr |-> expr, type |-> type]
IndexAssign(name, index, expr) ==
    [k |-> "IndexAssign", name |-> name, index |-> index, expr |-> expr]
PrintStmt(values) == [k |-> "Print", values |-> values]
ReturnStmt(values) == [k |-> "Return", values |-> values]
IfStmt(cond) == [k |-> "If", cond |-> cond]
ElifBranch(cond) == [k |-> "Elif", cond |-> cond]
WhileStmt(cond) == [k |-> "While", cond |-> cond]
ForStmt(var, from, to) == [k |-> "For", var |-> var, start |-> from, end |-> to]
NoName == "<none>"
Arg(name, value) == [name |-> name, value |-> value]
Call(name, args) == [k |-> "Call", name |-> name, args |-> args]
Param(name, type, default) == [name |-> name, type |-> type, default |-> default]
Function(name, params) == [name |-> name, params |-> params]

ParamInfo(name, type, has_default) ==
    [name |-> name, type |-> type, has_default |-> has_default]
FunctionSig(name, params) == [name |-> name, params |-> params]
NoSig == [name |-> "<none>", params |-> <<>>]     \* self.functions.get(...) is None

FnGet(table, name) == IF name \in DOMAIN table THEN table[name] ELSE NoSig

\* Result of walking a statement: the scope stack it leaves, or the error raised
\* (with the scope stack as it stood at the raise).
Done(stack) == [ok |-> TRUE, err |-> "", stack |-> stack]
Raise(msg, stack) == [ok |-> FALSE, err |-> msg, stack |-> stack]

\* The first error among the values of a list of expressions, if any.
RECURSIVE ExprList(_, _, _)
ExprList(stack, values, i) ==
    IF i > Len(values) THEN Ok("")
    ELSE LET r == _expr(stack, values[i])
         IN  IF ~r.ok THEN r ELSE ExprList(stack, values, i + 1)

\* semantic.py:150-162
DoDeclaration_NoRedeclarationTest(stack, node) ==
    Done(EnvSet(stack, node.name,
                TypeInfo(IF node.type = NoType THEN "auto" ELSE node.type, NoSize)))
DoDeclaration(stack, node) ==
    IF EnvGet(_env(stack), node.name) # NoBinding THEN Raise("already declared", stack)
    ELSE IF node.type # NoType /\ node.type \notin AllTypes THEN Raise("unknown type", stack)
    ELSE LET sized == node.type \in ContainerTypes /\ node.size # NoExpr
             size_type == IF sized THEN _expr(stack, node.size) ELSE Ok("")
             literal_size == IF sized THEN _literal_int_value(node.size) ELSE NoSize
         IN  IF ~size_type.ok THEN Raise(size_type.err, stack)
             ELSE IF sized /\ size_type.t \notin Numeric
                  THEN Raise("container size must be numeric", stack)
             ELSE Done(EnvSet(stack, node.name,
                              TypeInfo(IF node.type = NoType THEN "auto" ELSE node.type,
                                       literal_size)))

\* semantic.py:163-174
DoInput_UntypedBinds(stack, node) ==
    IF node.type # NoType
    THEN IF EnvGet(_env(stack), node.name) # NoBinding THEN Raise("already declared", stack)
         ELSE IF node.type \notin AllTypes THEN Raise("unknown type", stack)
         ELSE Done(EnvSet(stack, node.name, TypeInfo(node.type, NoSize)))
    ELSE Done(EnvSet(stack, node.name, TypeInfo("auto", NoSize)))
DoInput(stack, node) ==
    IF node.type # NoType
    THEN IF EnvGet(_env(stack), node.name) # NoBinding THEN Raise("already declared", stack)
         ELSE IF node.type \notin AllTypes THEN Raise("unknown type", stack)
         ELSE Done(EnvSet(stack, node.name, TypeInfo(node.type, NoSize)))
    ELSE IF _lookup(stack, node.name) = NoBinding
         THEN Raise("not declared before input", stack)
         ELSE Done(stack)

\* semantic.py:175-192
DoAssign(stack, node) ==
    LET t == _expr(stack, node.expr)
        existing == _lookup(stack, node.name)
    IN  IF ~t.ok THEN Raise(t.err, stack)
        ELSE IF node.type # NoType
             THEN IF node.type \notin AllTypes THEN Raise("unknown type", stack)
                  ELSE IF existing # NoBinding
                          /\ existing.name \notin {NoType, "auto", node.type}
                          /\ ~_ensure_assignable(existing.name, node.type).ok
                       THEN Raise("cannot assign", stack)
                  ELSE IF ~_ensure_assignable(node.type, t.t).ok
                       THEN Raise("cannot assign", stack)
                  ELSE Done(EnvSet(stack, node.name, TypeInfo(node.type, NoSize)))
        ELSE IF existing # NoBinding
             THEN IF ~_ensure_assignable(existing.name, t.t).ok
                  THEN Raise("cannot assign", stack)
                  ELSE Done(EnvSet(stack, node.name, existing))
        ELSE Done(EnvSet(stack, node.name, TypeInfo(t.t, NoSize)))

\* semantic.py:193-212
DoIndexAssign(stack, node) ==
    LET base == _lookup(stack, node.name)
        idx == IF base = NoBinding \/ base.name \notin ContainerTypes
               THEN IndexCheck(stack, node.name, node.index, Ok(""))
               ELSE IndexCheck(stack, node.name, node.index, _expr(stack, node.index))
        val_type == _expr(stack, node.expr)
    IN  IF ~idx.ok THEN Raise(idx.err, stack)
        ELSE IF ~val_type.ok THEN Raise(val_type.err, stack)
        ELSE IF val_type.t \notin Numeric
             THEN Raise("container elements must be numeric", stack)
        ELSE Done(stack)

\* semantic.py:213-216
DoPrint(stack, node) ==
    LET r == ExprList(stack, node.values, 1)
    IN  IF r.ok THEN Done(stack) ELSE Raise(r.err, stack)

\* semantic.py:244-249
DoReturn_DepthOffByOne(stack, depth, node) ==
    IF depth < 0 THEN Raise("'return' outside function", stack)
    ELSE LET r == ExprList(stack, node.values, 1)
         IN  IF r.ok THEN Done(stack) ELSE Raise(r.err, stack)
DoReturn(stack, depth, node) ==
    IF depth <= 0 THEN Raise("'return' outside function", stack)
    ELSE LET r == ExprList(stack, node.values, 1)
         IN  IF r.ok THEN Done(stack) ELSE Raise(r.err, stack)

\* semantic.py:231-236: the bounds of a for loop, then the scope of its body
DoForHeader(stack, node) ==
    LET start_t == _expr(stack, node.start)
        end_t == _expr(stack, node.end)
    IN  IF ~start_t.ok THEN Raise(start_t.err, stack)
        ELSE IF ~end_t.ok THEN Raise(end_t.err, stack)
        ELSE IF start_t.t \notin Numeric \/ end_t.t \notin Numeric
             THEN Raise("for bounds must be numeric", stack)
        ELSE Done(EnvSet(_push_env(stack), node.var, TypeInfo("int", NoSize)))

\* semantic.py:218-219, 221-222, 227-228: a condition, then _block's push
DoCondBlock(stack, cond) ==
    LET r == _expr(stack, cond)
    IN  IF r.ok THEN Done(_push_env(stack)) ELSE Raise(r.err, stack)

\* ---- _check_call (semantic.py:112-147) ----
ParamNamed(params, name) ==
    IF \E i \in DOMAIN params : params[i].name = name
    THEN <<params[CHOOSE i \in DOMAIN params :
                    /\ params[i].name = name
                    /\ \A j \in DOMAIN params : params[j].name = name => i <= j]>>
    ELSE <<>>

\* The named-argument tests of the loop body (semantic.py:122-133):
\* unknown parameter, then duplicate argument.
NamedArgError_NoDuplicateTest(params, provided, name) ==
    IF ParamNamed(params, name) = <<>> THEN "unknown parameter" ELSE ""
NamedArgError(params, provided, name) ==
    IF ParamNamed(params, name) = <<>> THEN "unknown parameter"
    ELSE IF name \in provided THEN "duplicate argument"
    ELSE ""

\* The positional-argument test (semantic.py:135-136)
TooMany(positional_index, params) == positional_index >= Len(params)

\* The final loop (semantic.py:143-147): some parameter is neither supplied
\* nor defaulted.
MissingArgument_IgnoreDefaults(params, provided) ==
    \E i \in DOMAIN params : params[i].name \notin provided
MissingArgument(params, provided) ==
    \E i \in DOMAIN params : params[i].name \notin provided /\ ~params[i].has_default

RECURSIVE CallArgs(_, _, _, _, _, _)
CallArgs(stack, params, args, i, provided, positional_index) ==
    IF i > Len(args)
    THEN IF MissingArgument(params, provided) THEN Err("missing argument") ELSE Ok("")
    ELSE LET arg == args[i]
             arg_type == _expr(stack, arg.value)
             named == arg.name # NoName
             nerr == IF named THEN NamedArgError(params, provided, arg.name) ELSE ""
             param == IF named THEN ParamNamed(params, arg.name)[1]
                      ELSE params[positional_index + 1]
         IN  IF ~arg_type.ok THEN arg_type
             ELSE IF named /\ nerr # "" THEN Err(nerr)
             ELSE IF ~named /\ TooMany(positional_index, params) THEN Err("too many arguments")
             ELSE IF param.type # NoType /\ ~_ensure_assignable(param.type, arg_type.t).ok
                  THEN Err("cannot assign")
             ELSE CallArgs(stack, params, args, i + 1, provided \cup {param.name},
                           IF named THEN positional_index ELSE positional_index + 1)

_check_call(stack, table, node) ==
    LET sig == FnGet(table, node.name)
    IN  IF sig = NoSig THEN Err("undefined function")
        ELSE CallArgs(stack, sig.params, node.args, 1, {}, 0)

DoCall(stack, table, node) ==
    LET r == _check_call(stack, table, node)
    IN  IF r.ok THEN Done(stack) ELSE Raise(r.err, stack)

\* ---- _register_functions, one iteration of its outer loop (semantic.py:75-97) ----
RECURSIVE SeedParams(_, _, _)
SeedParams(stack, infos, i) ==
    IF i > Len(infos) THEN stack
    ELSE SeedParams(EnvSet(stack, infos[i].name,
                           TypeInfo(IF infos[i].type = NoType THEN "auto" ELSE infos[i].type,
                                    NoSize)),
                    infos, i + 1)

\* Result: ok/err, the scope stack left, the ParamInfo list built and the
\* parameters of the tree with `p.type = inferred_type` applied so far.
RECURSIVE RegisterParams(_, _, _, _, _)
RegisterParams(stack, ps, i, infos, seen) ==
    IF i > Len(ps) THEN [ok |-> TRUE, err |-> "", stack |-> stack, infos |-> infos, ps |-> ps]
    ELSE LET p == ps[i]
             scoped == SeedParams(_push_env(stack), infos, 1)
             default_type == IF p.default # NoExpr THEN _expr(scoped, p.default) ELSE Ok("")
             assignable == IF p.default # NoExpr /\ p.type # NoType /\ default_type.ok
                           THEN _ensure_assignable(p.type, default_type.t) ELSE Ok("")
             inferred_type == IF p.default # NoExpr /\ p.type = NoType
                              THEN default_type.t ELSE p.type
             fail(msg, st) == [ok |-> FALSE, err |-> msg, stack |-> st, infos |-> infos, ps |-> ps]
         IN  IF p.name \in seen THEN fail("duplicate parameter", stack)
             ELSE IF ~default_type.ok THEN fail(default_type.err, scoped)
             ELSE IF ~assignable.ok THEN fail(assignable.err, stack)
             ELSE RegisterParams(stack, [ps EXCEPT ![i].type = inferred_type], i + 1,
                                 Append(infos, ParamInfo(p.name, inferred_type,
                                                         p.default # NoExpr)),
                                 seen \cup {p.name})

RegisterOne(stack, table, fn) ==
    IF fn.name \in DOMAIN table
    THEN [ok |-> FALSE, err |-> "function already defined", stack |-> stack,
          infos |-> <<>>, ps |-> fn.params]
    ELSE RegisterParams(stack, fn.params, 1, <<>>, {})

(***************************************************************************)
(* Constant folding  semantic.py:410-462                                   *)
(***************************************************************************)
\* The floats the folder computes with are counted in eighths, so that every
\* value of the model is one a Python float holds exactly and prints in full.
Scale == 2 * 2 * 2
Abs(n) == IF n < 0 THEN 0 - n ELSE n
Signed(neg, n) == IF neg THEN 0 - n ELSE n

\* The outcome of a float computation: a value (in eighths), an exception, or
\* a value that is no whole number of eighths (such inputs are left out).
Val(v) == [r |-> "val", v |-> v]
Raised == [r |-> "raise", v |-> 0]
Inexact == [r |-> "inexact", v |-> 0]

RECURSIVE Pow10(_)
Pow10(n) == IF n = 0 THEN 1 ELSE 10 * Pow10(n - 1)

\* float(lexeme) for the lexemes _number and _num_to_lex produce: an optional
\* sign, digits, an optional point and digits.
PyFloat(lexeme) ==
    LET neg == lexeme # <<>> /\ lexeme[1] = "-"
        body == IF neg THEN Tail(lexeme) ELSE lexeme
        dots == {i \in DOMAIN body : body[i] = "."}
        dot == IF dots = {} THEN Len(body) + 1 ELSE CHOOSE i \in dots : TRUE
        ip == SubSeq(body, 1, dot - 1)
        fp == SubSeq(body, dot + 1, Len(body))
        wellformed == /\ Cardinality(dots) <= 1
                      /\ \A i \in DOMAIN body : i \notin dots => IsDigitChar(body[i])
                      /\ Len(ip) + Len(fp) > 0
        scaled == (DigitsValue(ip) * Pow10(Len(fp)) + DigitsValue(fp)) * Scale
    IN  IF ~wellformed THEN Raised
        ELSE IF scaled % Pow10(Len(fp)) # 0 THEN Inexact
        ELSE Val(Signed(neg, scaled \div Pow10(Len(fp))))

RECURSIVE Decimal(_)
Decimal(n) ==
    IF n < 10 THEN <<DigitChars[n + 1]>>
    ELSE Decimal(n \div 10) \o <<DigitChars[(n % 10) + 1]>>

\* the digits str(float) prints after the point for e eighths
FractionDigits(e) ==
    CASE e = 1 -> <<"1", "2", "5">>  [] e = 2 -> <<"2", "5">>
      [] e = 3 -> <<"3", "7", "5">>  [] e = 4 -> <<"5">>
      [] e = 5 -> <<"6", "2", "5">>  [] e = 6 -> <<"7", "5">>
      [] e = 7 -> <<"8", "7", "5">>

\* _num_to_lex: str(int(val)) when val.is_integer(), else str(val)
_num_to_lex(v) ==
    LET a == Abs(v)
        sign == IF v < 0 THEN <<"-">> ELSE <<>>
    IN  IF a % Scale = 0 THEN sign \o Decimal(a \div Scale)
        ELSE sign \o Decimal(a \div Scale) \o <<".">> \o FractionDigits(a % Scale)

\* lf * rf and lf / rf (ZeroDivisionError when rf is zero)
Times(a, b) ==
    IF Abs(a * b) % Scale = 0
    THEN Val(Signed(a * b < 0, Abs(a * b) \div Scale)) ELSE Inexact
Over(a, b) ==
    IF b = 0 THEN Raised
    ELSE IF Abs(a * Scale) % Abs(b) = 0
         THEN Val(Signed((a < 0) # (b < 0), Abs(a * Scale) \div Abs(b)))
         ELSE Inexact

\* base ** exponent for a whole exponent (ZeroDivisionError for 0 ** -k)
RECURSIVE PowNat(_, _)
PowNat(b, k) ==
    IF k = 0 THEN Val(Scale)
    ELSE LET rest == PowNat(b, k - 1)
         IN  IF rest.r = "val" THEN Times(rest.v, b) ELSE rest
PyPow(b, e) ==
    IF e % Scale # 0 THEN Inexact
    ELSE IF e >= 0 THEN PowNat(b, e \div Scale)
    ELSE IF b = 0 THEN Raised
    ELSE LET d == PowNat(b, Abs(e) \div Scale)
         IN  IF d.r = "val" THEN Over(Scale, d.v) ELSE d

ArithWords ==
    [plus |-> {"+", "add"}, minus |-> {"-", "subtract"},
     times |-> {"*", "multiply"}, over |-> {"/", "divide"}]

\* _eval_binary: the value before _num_to_lex; ValueError for any other op
\* the arithmetic of _eval_binary on lf = float(l), rf = float(r)
BinaryValue(op, lf, rf) ==
    IF lf.r = "raise" \/ rf.r = "raise" THEN Raised
    ELSE IF op \notin ArithWords.plus \cup ArithWords.minus
                        \cup ArithWords.times \cup ArithWords.over THEN Raised
    ELSE IF lf.r = "inexact" \/ rf.r = "inexact" THEN Inexact
    ELSE IF op \in ArithWords.plus THEN Val(lf.v + rf.v)
    ELSE IF op \in ArithWords.minus THEN Val(lf.v - rf.v)
    ELSE IF op \in ArithWords.times THEN Times(lf.v, rf.v)
    ELSE Over(lf.v, rf.v)
_eval_binary(op, l, r) == BinaryValue(op, PyFloat(l), PyFloat(r))

\* The value a node computes from its folded Number operands.
\* -num if op == "-" else num   semantic.py _fold_expr, Unary branch
UnaryValue(op, num) == IF num.r = "val" /\ op = "-" THEN Val(0 - num.v) ELSE num
\* float(base) ** float(exponent)   semantic.py _fold_expr, Power branch
PowerValue(bf, ef) ==
    IF bf.r = "raise" \/ ef.r = "raise" THEN Raised
    ELSE IF bf.r = "inexact" \/ ef.r = "inexact" THEN Inexact
    ELSE PyPow(bf.v, ef.v)
NodeValue(expr, a, b) ==
    IF expr.k = "Binary" THEN _eval_binary(expr.op, a.value, b.value)
    ELSE IF expr.k = "Unary" THEN UnaryValue(expr.op, PyFloat(a.value))
    ELSE PowerValue(PyFloat(a.value), PyFloat(b.value))

\* the literal that replaces the node, or the node itself after `except`
Literal(val, kept) == IF val.r = "val" THEN Number(_num_to_lex(val.v)) ELSE kept
Folded(expr, kept, a, b) == Literal(NodeValue(expr, a, b), kept)

\* the operands of an arithmetic node (a Unary has one, taken twice)
Operands(expr) ==
    IF expr.k = "Binary" THEN <<expr.left, expr.right>>
    ELSE IF expr.k = "Unary" THEN <<expr.right, expr.right>>
    ELSE <<expr.base, expr.exponent>>
\* the node with its operands replaced: Binary(left, op, right), Unary(op, right),
\* Power(base, exponent)
Rebuilt(expr, a, b) ==
    IF expr.k = "Binary" THEN [expr EXCEPT !.left = a, !.right = b]
    ELSE IF expr.k = "Unary" THEN [expr EXCEPT !.right = a]
    ELSE [expr EXCEPT !.base = a, !.exponent = b]
\* the isinstance tests of the three branches on the operands a, b
Foldable(expr, a, b) ==
    /\ a.k = "Number" /\ b.k = "Number"
    /\ expr.k = "Unary" => expr.op \in {"+", "-"}
FoldNode(expr, kept, a, b) == IF Foldable(expr, a, b) THEN Folded(expr, kept, a, b) ELSE kept
FoldKept(expr, kept) == FoldNode(expr, kept, Operands(kept)[1], Operands(kept)[2])

RECURSIVE _fold_expr_TestBeforeFolding(_)
_fold_expr_TestBeforeFolding(expr) ==
    IF expr.k \in {"Binary", "Unary", "Power"}
    THEN FoldNode(expr,
                  Rebuilt(expr, _fold_expr_TestBeforeFolding(Operands(expr)[1]),
                                _fold_expr_TestBeforeFolding(Operands(expr)[2])),
                  Operands(expr)[1], Operands(expr)[2])
    ELSE expr
\* semantic.py:410-452: the operands are folded first, the tests are made on
\* the folded operands
RECURSIVE _fold_expr(_)
_fold_expr(expr) ==
    IF expr.k \in {"Binary", "Unary", "Power"}
    THEN FoldKept(expr, Rebuilt(expr, _fold_expr(Operands(expr)[1]),
                                      _fold_expr(Operands(expr)[2])))
    ELSE expr

\* the node's own value is exact when its folded operands a, b are literals
ExactNode(expr, a, b) == Foldable(expr, a, b) => NodeValue(expr, a, b).r # "inexact"
\* Every value folding the expression computes is a whole number of eighths.
RECURSIVE Exact(_)
Exact(expr) ==
    IF expr.k \in {"Binary", "Unary", "Power"}
    THEN /\ Exact(Operands(expr)[1]) /\ Exact(Operands(expr)[2])
         /\ ExactNode(expr, _fold_expr(Operands(expr)[1]), _fold_expr(Operands(expr)[2]))
    ELSE TRUE

(***************************************************************************)
(* analyze() on a whole Program  semantic.py:59-110, 149-250, 366-408      *)
(***************************************************************************)
\* Statements that own their bodies, as the parser builds them (ast.py:112-162)
IfBranch(cond, body) == [cond |-> cond, body |-> body]
If(first, elifs, else_body) ==
    [k |-> "If", first |-> first, elifs |-> elifs, else_body |-> else_body]
While(cond, body) == [k |-> "While", cond |-> cond, body |-> body]
For(var, from, to, body) ==
    [k |-> "For", var |-> var, start |-> from, end |-> to, body |-> body]
FunctionBody(name, params, body) == [name |-> name, params |-> params, body |-> body]
Program(fns, statements) == [functions |-> fns, statements |-> statements]

\* semantic.py:149-250 on a statement with its bodies; `for stmt in body` is
\* StmtList; a raise leaves the scopes pushed so far on the stack.
RECURSIVE _stmt(_, _, _, _)
RECURSIVE StmtList(_, _, _, _, _)
RECURSIVE ElifList(_, _, _, _, _)
\* after body[i] left r: the raise goes up, else the loop goes on
StmtRest(r, table, depth, body, i) ==
    IF ~r.ok THEN r ELSE StmtList(r.stack, table, depth, body, i + 1)
StmtList(stack, table, depth, body, i) ==
    IF i > Len(body) THEN Done(stack)
    ELSE StmtRest(_stmt(stack, table, depth, body[i]), table, depth, body, i)

\* self._pop_env() after a body that did not raise
Popped(r) == IF ~r.ok THEN r ELSE Done(_pop_env(r.stack))

\* semantic.py:68-72
_block(stack, table, depth, body) ==
    Popped(StmtList(_push_env(stack), table, depth, body, 1))

\* the body in the scope the header h pushed, then the pop
HeaderBody(h, table, depth, body) ==
    IF ~h.ok THEN h ELSE Popped(StmtList(h.stack, table, depth, body, 1))

\* self._expr(cond) followed by self._block(body)
CondBlock(stack, table, depth, br) ==
    HeaderBody(DoCondBlock(stack, br.cond), table, depth, br.body)

ElifRest(r, table, depth, elifs, i) ==
    IF ~r.ok THEN r ELSE ElifList(r.stack, table, depth, elifs, i + 1)
ElifList(stack, table, depth, elifs, i) ==
    IF i > Len(elifs) THEN Done(stack)
    ELSE ElifRest(CondBlock(stack, table, depth, elifs[i]), table, depth, elifs, i)

\* `if node.else_body: self._block(node.else_body)` after the elifs left r
IfElse(r, table, depth, node) ==
    IF ~r.ok THEN r
    ELSE IF node.else_body # <<>> THEN _block(r.stack, table, depth, node.else_body)
    ELSE r
\* the elif branches and the else body after the first branch left r
IfElifs(r, table, depth, node) ==
    IF ~r.ok THEN r
    ELSE IfElse(ElifList(r.stack, table, depth, node.elifs, 1), table, depth, node)

_stmt(stack, table, depth, node) ==
    CASE node.k = "Declaration" -> DoDeclaration(stack, node)
      [] node.k = "Input" -> DoInput(stack, node)
      [] node.k = "Assign" -> DoAssign(stack, node)
      [] node.k = "IndexAssign" -> DoIndexAssign(stack, node)
      [] node.k = "Print" -> DoPrint(stack, node)
      [] node.k = "If" ->
            IfElifs(CondBlock(stack, table, depth, node.first), table, depth, node)
      [] node.k = "While" -> CondBlock(stack, table, depth, node)
      [] node.k = "For" -> HeaderBody(DoForHeader(stack, node), table, depth, node.body)
      [] node.k = "Call" -> DoCall(stack, table, node)
      [] node.k = "Return" -> DoReturn(stack, depth, node)
      [] OTHER -> Raise("Unhandled statement", stack)

\* semantic.py:74-97: the loop over the functions; `fns` carries the
\* assignments `p.type = inferred_type` made so far.
RECURSIVE _register_functions(_, _, _, _)
\* after RegisterOne left r for fns[i], whose parameters are then r.ps
RegisterRest(r, table, fns, seen, i) ==
    IF ~r.ok
    THEN [ok |-> FALSE, err |-> r.err, stack |-> r.stack, table |-> table, fns |-> seen]
    ELSE _register_functions(r.stack,
                             (fns[i].name :> FunctionSig(fns[i].name, r.infos)) @@ table,
                             seen, i + 1)
RegisterSeen(r, table, fns, i) ==
    RegisterRest(r, table, fns, [fns EXCEPT ![i].params = r.ps], i)
_register_functions(stack, table, fns, i) ==
    IF i > Len(fns)
    THEN [ok |-> TRUE, err |-> "", stack |-> stack, table |-> table, fns |-> fns]
    ELSE RegisterSeen(RegisterOne(stack, table, fns[i]), table, fns, i)

\* semantic.py:99-110
FunctionLeft(r, depth) ==
    IF ~r.ok THEN [ok |-> FALSE, err |-> r.err, stack |-> r.stack, depth |-> depth + 1]
    ELSE [ok |-> TRUE, err |-> "", stack |-> _pop_env(r.stack), depth |-> depth]
FunctionEntered(stack, table, depth, fn, sig) ==
    IF sig = NoSig THEN [ok |-> TRUE, err |-> "", stack |-> stack, depth |-> depth]
    ELSE FunctionLeft(StmtList(SeedParams(_push_env(stack), sig.params, 1), table,
                               depth + 1, fn.body, 1),
                      depth)
_analyze_function(stack, table, depth, fn) ==
    FunctionEntered(stack, table, depth, fn, FnGet(table, fn.name))

\* `for fn in program.functions: self._analyze_function(fn)`
RECURSIVE FunctionBodies(_, _, _, _, _)
FunctionRest(r, table, fns, i) ==
    IF ~r.ok THEN r ELSE FunctionBodies(r.stack, table, r.depth, fns, i + 1)
FunctionBodies(stack, table, depth, fns, i) ==
    IF i > Len(fns) THEN [ok |-> TRUE, err |-> "", stack |-> stack, depth |-> depth]
    ELSE FunctionRest(_analyze_function(stack, table, depth, fns[i]), table, fns, i)

\* semantic.py:370-403
RECURSIVE _fold_stmt(_)
_fold_stmt(stmt) ==
    LET FoldBody(body) == [i \in DOMAIN body |-> _fold_stmt(body[i])]
    IN  CASE stmt.k = "Assign" -> [stmt EXCEPT !.expr = _fold_expr(stmt.expr)]
          [] stmt.k = "Print" ->
                [stmt EXCEPT !.values = [i \in DOMAIN stmt.values |-> _fold_expr(stmt.values[i])]]
          [] stmt.k = "Call" ->
                [stmt EXCEPT !.args = [i \in DOMAIN stmt.args |->
                                         Arg(stmt.args[i].name, _fold_expr(stmt.args[i].value))]]
          [] stmt.k = "If" ->
                [stmt EXCEPT !.first = IfBranch(_fold_expr(stmt.first.cond),
                                                FoldBody(stmt.first.body)),
                             !.elifs = [i \in DOMAIN stmt.elifs |->
                                          IfBranch(_fold_expr(stmt.elifs[i].cond),
                                                   FoldBody(stmt.elifs[i].body))],
                             !.else_body = FoldBody(stmt.else_body)]
          [] stmt.k = "While" ->
                [stmt EXCEPT !.cond = _fold_expr(stmt.cond), !.body = FoldBody(stmt.body)]
          [] stmt.k = "For" ->
                [stmt EXCEPT !.start = _fold_expr(stmt.start), !.end = _fold_expr(stmt.end),
                             !.body = FoldBody(stmt.body)]
          [] OTHER -> stmt

\* semantic.py:405-408
_fold_function(fn) == [fn EXCEPT !.body = [i \in DOMAIN fn.body |-> _fold_stmt(fn.body[i])]]

\* semantic.py:366-368
_fold_program(p) ==
    Program([i \in DOMAIN p.functions |-> _fold_function(p.functions[i])],
            [i \in DOMAIN p.statements |-> _fold_stmt(p.statements[i])])

\* semantic.py:59-65: what one call of analyze(p) leaves in the instance and
\* in the tree, whether it returns or raises.
analyze_FreshTables(stack, table, depth, p) ==
    LET reg == _register_functions(<<EmptyEnv>>, [n \in {} |-> NoSig], p.functions, 1)
        registered == Program(reg.fns, p.statements)
        fns == FunctionBodies(reg.stack, reg.table, 0, p.functions, 1)
        stmts == StmtList(fns.stack, reg.table, fns.depth, p.statements, 1)
        out(ok, err, st, d, tree) ==
            [ok |-> ok, err |-> err, stack |-> st, table |-> reg.table, depth |-> d,
             program |-> tree]
    IN  IF ~reg.ok THEN out(FALSE, reg.err, reg.stack, 0, registered)
        ELSE IF ~fns.ok THEN out(FALSE, fns.err, fns.stack, fns.depth, registered)
        ELSE IF ~stmts.ok THEN out(FALSE, stmts.err, stmts.stack, fns.depth, registered)
        ELSE out(TRUE, "", stmts.stack, fns.depth, _fold_program(registered))
analyze_FoldsWhenRaising(stack, table, depth, p) ==
    LET reg == _register_functions(stack, table, p.functions, 1)
        registered == _fold_program(Program(reg.fns, p.statements))
        fns == FunctionBodies(reg.stack, reg.table, depth, p.functions, 1)
        stmts == StmtList(fns.stack, reg.table, fns.depth, p.statements, 1)
        out(ok, err, st, d, tree) ==
            [ok |-> ok, err |-> err, stack |-> st, table |-> reg.table, depth |-> d,
             program |-> tree]
    IN  IF ~reg.ok THEN out(FALSE, reg.err, reg.stack, depth, registered)
        ELSE IF ~fns.ok THEN out(FALSE, fns.err, fns.stack, fns.depth, registered)
        ELSE IF ~stmts.ok THEN out(FALSE, stmts.err, stmts.stack, fns.depth, registered)
        ELSE out(TRUE, "", stmts.stack, fns.depth, registered)
\* what the call leaves: outcome, instance fields and tree
Analyzed(ok, err, stack, table, depth, tree) ==
    [ok |-> ok, err |-> err, stack |-> stack, table |-> table, depth |-> depth,
     program |-> tree]
\* self._fold_program(program) after the statements left r
AnalyzeFold(reg, f, r, tree) ==
    IF ~r.ok THEN Analyzed(FALSE, r.err, r.stack, reg.table, f.depth, tree)
    ELSE Analyzed(TRUE, "", r.stack, reg.table, f.depth, _fold_program(tree))
\* `for stmt in program.statements: self._stmt(stmt)` after the functions left f
AnalyzeStatements(reg, f, tree) ==
    IF ~f.ok THEN Analyzed(FALSE, f.err, f.stack, reg.table, f.depth, tree)
    ELSE AnalyzeFold(reg, f, StmtList(f.stack, reg.table, f.depth, tree.statements, 1), tree)
\* the function bodies after _register_functions left reg
AnalyzeFunctions(reg, depth, p, tree) ==
    IF ~reg.ok THEN Analyzed(FALSE, reg.err, reg.stack, reg.table, depth, tree)
    ELSE AnalyzeStatements(reg, FunctionBodies(reg.stack, reg.table, depth, p.functions, 1),
                           tree)
AnalyzeRegistered(reg, depth, p) ==
    AnalyzeFunctions(reg, depth, p, Program(reg.fns, p.statements))
analyze(stack, table, depth, p) ==
    AnalyzeRegistered(_register_functions(stack, table, p.functions, 1), depth, p)

\* No Program has been handed to analyze(), no expression to _fold_expr.
AstIdle ==
    /\ ast = [k |-> "None"]
    /\ astIn = [k |-> "None"]
    /\ analyzeCalls = 0
FoldIdle ==
    /\ foldIn = NoExpr
    /\ foldTree = NoExpr
    /\ foldCalls = 0
\* No expression has been handed to _expr on its own.
NotCalled == Err("<not called>")
TypIdle ==
    /\ exprIn = NoExpr
    /\ exprOut = NotCalled
\* No Codegen has been constructed.
EmptyGenEnv == [n \in {} |-> NoType]
GenIdle ==
    /\ lines = <<>>
    /\ indent = 0
    /\ genEnv = EmptyGenEnv
    /\ genStatus = "idle"
    /\ genIdx = 0
\* No token list has been handed to a Parser.
ParIdle ==
    /\ ptokens = <<>>
    /\ current = 0
    /\ parsed = <<>>
    /\ parStatus = "idle"
    /\ parErr = <<>>
    /\ cmpSave = 0
    /\ cmpIdx = 0
    /\ cmpOp = ""

(***************************************************************************)
(* Bounded inputs of the analyzer                                          *)
(***************************************************************************)
VarNames == {"x", "y"}
FnNames == {"f", "g"}

Num1 == Number(<<"1">>)
NumFloat == Number(<<"2", ".", "5">>)
Str == String("s")
BoolExpr == Binary(Num1, "==", Num1)

IntLexeme(n) == IF n < 0 THEN <<"-", DigitChars[1 - n]>> ELSE <<DigitChars[n + 1]>>
\* literal indices from one below 0 to one above the largest size
IndexLiterals == {Number(IntLexeme(n)) : n \in (0 - 1)..(MaxSize + 1)}
IndexReads == {Index("x", i) : i \in IndexLiterals \cup {Var("y")}}

Exprs == {Num1, NumFloat, Str, Var("x"), Var("y"), BoolExpr} \cup IndexReads

SizeExprs == {Number(IntLexeme(n)) : n \in 0..MaxSize} \cup {NumFloat, Var("y")}

Declarations ==
    {Declaration(n, t, NoExpr) : n \in VarNames,
                                 t \in {NoType, "int", "float", "string", "bool", "list", "mystery"}}
    \cup {Declaration("x", t, sz) : t \in {"list", "array"}, sz \in SizeExprs}

Inputs == {Input(n, t) : n \in VarNames, t \in {NoType, "int", "mystery"}}

Assigns ==
    {Assign(n, e, NoType) : n \in VarNames, e \in Exprs}
    \cup {Assign(n, e, t) : n \in VarNames, e \in {Num1, Str, Var("y")}, t \in {"float", "string"}}

IndexAssigns ==
    {IndexAssign("x", i, e) : i \in IndexLiterals \cup {Var("y"), Str}, e \in {Num1, Str}}

Prints == {PrintStmt(<<e>>) : e \in Exprs} \cup {PrintStmt(<<Var("y"), Index("x", Num1)>>)}

Returns == {ReturnStmt(<<>>), ReturnStmt(<<Var("x")>>)}

Conds == {BoolExpr, Binary(Var("x"), "<", Num1)}

Fors == {ForStmt(v, a, Num1) : v \in VarNames, a \in {Num1, Str}}

\* Programs of the statement-form specification: few, simple functions.
CoreFunctions ==
    {Function("f", <<Param("x", NoType, NoExpr)>>),
     Function("g", <<Param("x", "int", Num1)>>)}
CorePrograms == SeqsUpTo(CoreFunctions, MaxCoreFns)

\* Programs of the call specification: up to MaxFns functions with up to
\* MaxParams parameters between them.
Params ==
    {Param("x", NoType, NoExpr), Param("x", "int", Num1),
     Param("y", "int", NoExpr), Param("y", NoType, Num1),
     Param("y", "int", Str), Param("y", NoType, Var("x"))}
RECURSIVE ProgramsWith(_, _)
ProgramsWith(nf, np) ==
    IF nf = 0 THEN {<<>>}
    ELSE {<<>>} \cup
         UNION {{<<Function(n, ps)>> \o rest :
                     n \in FnNames, rest \in ProgramsWith(nf - 1, np - Len(ps))} :
                ps \in SeqsUpTo(Params, np)}
CallPrograms == ProgramsWith(MaxFns, MaxParams)

Args == {Arg(NoName, Num1), Arg(NoName, Str)} \cup {Arg(n, Num1) : n \in VarNames}
Calls == {Call(n, as) : n \in FnNames, as \in SeqsUpTo(Args, MaxArgs)}

\* Expressions handed to _fold_expr, by number of nodes.
FoldLeaves ==
    {Number(<<"0">>), Number(<<"1">>), Number(<<"2", ".", "5">>),
     Number(<<"2", ".", "0">>), Var("x"),
     Index("x", Binary(Number(<<"1">>), "+", Number(<<"1">>)))}
FoldBinaryOps == {"add", "*", "/", "=="}
FoldUnaryOps == {"+", "-", "not"}
RECURSIVE ExprsOfSize(_)
ExprsOfSize(n) ==
    IF n = 1 THEN FoldLeaves
    ELSE {Unary(op, e) : op \in FoldUnaryOps, e \in ExprsOfSize(n - 1)}
         \cup UNION {{Binary(l, op, r) : op \in FoldBinaryOps,
                          l \in ExprsOfSize(i), r \in ExprsOfSize(n - 1 - i)}
                       \cup {Power(l, r) : l \in ExprsOfSize(i), r \in ExprsOfSize(n - 1 - i)} :
                     i \in 1..(n - 2)}
\* those of up to `size` nodes
FoldExprs(size) == {e \in UNION {ExprsOfSize(n) : n \in 1..size} : Exact(e)}

\* Whole programs handed to analyze(): an arithmetic expression of literals
\* in every place a statement holds an expression.
OnePlusOne == Binary(Num1, "+", Num1)
OneLessOne == Binary(Num1, "-", Num1)
DivZero == Binary(Num1, "/", Number(<<"0">>))
TreeCond == Binary(OnePlusOne, "==", Num1)
TreeAssign == Assign("y", OnePlusOne, NoType)
TreeFlat ==
    {Declaration("x", "list", OnePlusOne), Declaration("x", "int", NoExpr),
     Input("x", NoType), TreeAssign,
     Assign("y", Unary("-", Num1), NoType), Assign("y", Power(OnePlusOne, Num1), "float"),
     Assign("y", DivZero, NoType), Assign("y", Var("x"), NoType),
     IndexAssign("x", OneLessOne, OnePlusOne),
     PrintStmt(<<OnePlusOne, Var("x")>>), PrintStmt(<<Index("x", OneLessOne)>>),
     ReturnStmt(<<OnePlusOne>>),
     Call("f", <<Arg(NoName, OnePlusOne)>>), Call("f", <<>>)}
TreeBodies == {<<>>, <<TreeAssign>>, <<PrintStmt(<<Var("y")>>)>>}
TreeNested ==
    {If(IfBranch(TreeCond, b), el, eb) :
        b \in TreeBodies, el \in {<<>>, <<IfBranch(TreeCond, <<TreeAssign>>)>>},
        eb \in {<<>>, <<TreeAssign>>}}
    \cup {While(TreeCond, b) : b \in TreeBodies}
    \cup {For("y", OnePlusOne, Num1, b) : b \in TreeBodies}
    \cup {For("y", Str, Num1, <<>>),
          While(TreeCond, <<If(IfBranch(TreeCond, <<TreeAssign>>), <<>>, <<>>)>>)}
TreeStatements ==
    {<<>>} \cup {<<s>> : s \in TreeFlat \cup TreeNested}
    \cup {<<d, s>> : d \in {Declaration("x", "list", OnePlusOne), Declaration("x", "list", Num1)},
                     s \in TreeFlat \cup TreeNested}
TreeFunctions ==
    {FunctionBody("f", ps, b) :
        ps \in {<<>>, <<Param("x", NoType, OnePlusOne)>>, <<Param("x", "int", NoExpr)>>,
                <<Param("x", NoType, Num1), Param("y", "int", Str)>>},
        b \in {<<>>, <<ReturnStmt(<<OnePlusOne>>)>>, <<ReturnStmt(<<Var("y")>>)>>}}
TreeFunctionLists ==
    {<<>>} \cup {<<f>> : f \in TreeFunctions}
    \cup {<<f, FunctionBody("f", <<>>, <<>>)>> :
             f \in {FunctionBody("f", <<Param("x", NoType, OnePlusOne)>>, <<>>)}}
TreePrograms == {Program(fs, ss) : fs \in TreeFunctionLists, ss \in TreeStatements}

\* Programs handed to an instance that has analysed another program already.
LaterPrograms ==
    {Program(<<>>, <<PrintStmt(<<Var("x")>>)>>),
     Program(<<>>, <<Declaration("x", "int", NoExpr)>>),
     Program(<<>>, <<Call("f", <<>>)>>),
     Program(<<FunctionBody("f", <<>>, <<>>)>>, <<>>),
     Program(<<FunctionBody("g", <<>>, <<>>), FunctionBody("f", <<>>, <<>>)>>, <<>>)}

(***************************************************************************)
(* The analyzer as a state machine.  analyze() walks a program that is     *)
(* produced as it is walked: the function headers are fixed at the start   *)
(* (they are all read by _register_functions), each statement is chosen    *)
(* when the walk reaches it.                                               *)
(***************************************************************************)
\* What each variable name resolves to: the observable content of the scopes.
Resolve(stack) == [n \in VarNames |-> _lookup(stack, n)]

Frame(kind, snap) == [kind |-> kind, snap |-> snap]
Top == ctl[Len(ctl)]
Pop(seq) == SubSeq(seq, 1, Len(seq) - 1)

\* Analyzer(source) followed by the call analyze(program)
AnaInitWith(programs) ==
    /\ env_stack = <<EmptyEnv>>
    /\ functions = [n \in {} |-> NoSig]
    /\ function_depth = 0
    /\ program \in programs
    /\ regIdx = 1
    /\ fnIdx = 1
    /\ ctl = <<>>
    /\ nodes = 0
    /\ last = [k |-> "None"]
    /\ anaStatus = "running"
    /\ anaErr = ""

AnaIdle ==
    /\ env_stack = <<EmptyEnv>>
    /\ functions = [n \in {} |-> NoSig]
    /\ function_depth = 0
    /\ program = <<>>
    /\ regIdx = 1
    /\ fnIdx = 1
    /\ ctl = <<>>
    /\ nodes = 0
    /\ last = [k |-> "None"]
    /\ anaStatus = "idle"
    /\ anaErr = ""

Running == anaStatus = "running"

\* analyze() line 60 has returned: the loop of _register_functions is over.
Registered_AfterFirst == regIdx > 1 \/ regIdx > Len(program)
Registered == regIdx > Len(program)

\* The walk is at a place where a statement may stand: in a function body, in a
\* block body, or among the top-level statements once every function is done.
AtStatement_BeforeBodies ==
    /\ Running /\ Registered
    /\ ctl # <<>> => Top.kind # "ifjoin"
AtStatement ==
    /\ Running /\ Registered
    /\ IF ctl = <<>> THEN fnIdx > Len(program) ELSE Top.kind # "ifjoin"

\* The outcome of a statement that opens no block.
Outcome(node, r) ==
    /\ last' = node
    /\ nodes' = nodes + 1
    /\ env_stack' = r.stack
    /\ anaStatus' = IF r.ok THEN anaStatus ELSE "error"
    /\ anaErr' = r.err
    /\ UNCHANGED <<functions, function_depth, program, regIdx, fnIdx, ctl>>

\* The outcome of a statement header that opens a block of the given kind.
Opens(node, r, kind) ==
    /\ last' = node
    /\ nodes' = nodes + 1
    /\ env_stack' = r.stack
    /\ anaStatus' = IF r.ok THEN anaStatus ELSE "error"
    /\ anaErr' = r.err
    /\ ctl' = IF r.ok THEN Append(ctl, Frame(kind, Resolve(env_stack))) ELSE ctl
    /\ UNCHANGED <<functions, function_depth, program, regIdx, fnIdx>>

\* semantic.py:75-97, one function
RegisterFunction ==
    /\ Running /\ regIdx <= Len(program)
    /\ LET fn == program[regIdx]
           r == RegisterOne(env_stack, functions, fn)
       IN  /\ env_stack' = r.stack
           /\ program' = [program EXCEPT ![regIdx].params = r.ps]
           /\ functions' = IF r.ok THEN (fn.name :> FunctionSig(fn.name, r.infos)) @@ functions
                           ELSE functions
           /\ regIdx' = IF r.ok THEN regIdx + 1 ELSE regIdx
           /\ anaStatus' = IF r.ok THEN anaStatus ELSE "error"
           /\ anaErr' = r.err
           /\ last' = [k |-> "Register", name |-> fn.name]
    /\ UNCHANGED <<function_depth, fnIdx, ctl, nodes>>
    /\ AnaFrame

\* semantic.py:99-106: _analyze_function up to the walk of the body
EnterFunction ==
    /\ Running /\ Registered /\ ctl = <<>> /\ fnIdx <= Len(program)
    /\ LET sig == FnGet(functions, program[fnIdx].name)
       IN  IF sig = NoSig
           THEN /\ fnIdx' = fnIdx + 1
                /\ UNCHANGED <<env_stack, function_depth, ctl>>
           ELSE /\ env_stack' = SeedParams(_push_env(env_stack), sig.params, 1)
                /\ function_depth' = function_depth + 1
                /\ ctl' = <<Frame("fn", Resolve(env_stack))>>
                /\ UNCHANGED fnIdx
    /\ last' = [k |-> "Function", name |-> program[fnIdx].name]
    /\ UNCHANGED <<functions, program, regIdx, nodes, anaStatus, anaErr>>
    /\ AnaFrame

\* semantic.py:109-110: the body is done
ExitFunction ==
    /\ Running /\ ctl # <<>> /\ Top.kind = "fn"
    /\ function_depth' = function_depth - 1
    /\ env_stack' = _pop_env(env_stack)
    /\ ctl' = Pop(ctl)
    /\ fnIdx' = fnIdx + 1
    /\ last' = [k |-> "BlockEnd", kind |-> "fn", snap |-> Top.snap,
                bound |-> DOMAIN _env(env_stack)]
    /\ UNCHANGED <<functions, program, regIdx, nodes, anaStatus, anaErr>>
    /\ AnaFrame

StmtDeclaration ==
    /\ AtStatement /\ nodes < MaxStmts
    /\ \E node \in Declarations : Outcome(node, DoDeclaration(env_stack, node))
    /\ AnaFrame

StmtInput ==
    /\ AtStatement /\ nodes < MaxStmts
    /\ \E node \in Inputs : Outcome(node, DoInput(env_stack, node))
    /\ AnaFrame

StmtAssign ==
    /\ AtStatement /\ nodes < MaxStmts
    /\ \E node \in Assigns : Outcome(node, DoAssign(env_stack, node))
    /\ AnaFrame

StmtIndexAssign ==
    /\ AtStatement /\ nodes < MaxStmts
    /\ \E node \in IndexAssigns : Outcome(node, DoIndexAssign(env_stack, node))
    /\ AnaFrame

StmtPrint ==
    /\ AtStatement /\ nodes < MaxStmts
    /\ \E node \in Prints : Outcome(node, DoPrint(env_stack, node))
    /\ AnaFrame

StmtReturn ==
    /\ AtStatement /\ nodes < MaxStmts
    /\ \E node \in Returns : Outcome(node, DoReturn(env_stack, function_depth, node))
    /\ AnaFrame

StmtCall ==
    /\ AtStatement /\ nodes < MaxCalls
    /\ \E node \in Calls : Outcome(node, DoCall(env_stack, functions, node))
    /\ AnaFrame

\* semantic.py:217-219: `if`, its condition and the entry of the first body
IfBegin ==
    /\ AtStatement /\ nodes < MaxStmts /\ Len(ctl) < MaxDepth
    /\ \E c \in Conds : Opens(IfStmt(c), DoCondBlock(env_stack, c), "if")
    /\ AnaFrame

\* semantic.py:226-228
WhileBegin ==
    /\ AtStatement /\ nodes < MaxStmts /\ Len(ctl) < MaxDepth
    /\ \E c \in Conds : Opens(WhileStmt(c), DoCondBlock(env_stack, c), "while")
    /\ AnaFrame

\* semantic.py:230-236
ForBegin ==
    /\ AtStatement /\ nodes < MaxStmts /\ Len(ctl) < MaxDepth
    /\ \E node \in Fors : Opens(node, DoForHeader(env_stack, node), "for")
    /\ AnaFrame

\* semantic.py:72 and 239: the body of a block is done, its scope is popped
BlockEnd ==
    /\ Running /\ ctl # <<>> /\ Top.kind \in {"if", "elif", "else", "while", "for"}
    /\ env_stack' = _pop_env(env_stack)
    /\ ctl' = IF Top.kind \in {"if", "elif"}
              THEN [ctl EXCEPT ![Len(ctl)].kind = "ifjoin"]
              ELSE Pop(ctl)
    /\ last' = [k |-> "BlockEnd", kind |-> Top.kind, snap |-> Top.snap,
                bound |-> DOMAIN _env(env_stack)]
    /\ UNCHANGED <<functions, function_depth, program, regIdx, fnIdx, nodes,
                   anaStatus, anaErr>>
    /\ AnaFrame

\* semantic.py:220-222: the next `else if` branch
ElifBegin ==
    /\ Running /\ ctl # <<>> /\ Top.kind = "ifjoin" /\ nodes < MaxStmts
    /\ \E c \in Conds :
         LET r == DoCondBlock(env_stack, c)
         IN  /\ last' = ElifBranch(c)
             /\ nodes' = nodes + 1
             /\ env_stack' = r.stack
             /\ anaStatus' = IF r.ok THEN anaStatus ELSE "error"
             /\ anaErr' = r.err
             /\ ctl' = IF r.ok THEN [ctl EXCEPT ![Len(ctl)].kind = "elif"] ELSE ctl
    /\ UNCHANGED <<functions, function_depth, program, regIdx, fnIdx>>
    /\ AnaFrame

\* semantic.py:223-224: the else body
ElseBegin ==
    /\ Running /\ ctl # <<>> /\ Top.kind = "ifjoin" /\ nodes < MaxStmts
    /\ env_stack' = _push_env(env_stack)
    /\ ctl' = [ctl EXCEPT ![Len(ctl)].kind = "else"]
    /\ last' = [k |-> "Else"]
    /\ UNCHANGED <<functions, function_depth, program, regIdx, fnIdx, nodes,
                   anaStatus, anaErr>>
    /\ AnaFrame

\* semantic.py:225: an if statement without (further) branches is done
EndIf ==
    /\ Running /\ ctl # <<>> /\ Top.kind = "ifjoin"
    /\ ctl' = Pop(ctl)
    /\ last' = [k |-> "EndIf"]
    /\ UNCHANGED <<env_stack, functions, function_depth, program, regIdx, fnIdx, nodes,
                   anaStatus, anaErr>>
    /\ AnaFrame

\* semantic.py:63-65: the top-level statements are done; analyze returns
Finish ==
    /\ Running /\ Registered /\ ctl = <<>> /\ fnIdx > Len(program)
    /\ anaStatus' = "ok"
    /\ last' = [k |-> "Done"]
    /\ UNCHANGED <<env_stack, functions, function_depth, program, regIdx, fnIdx, ctl,
                   nodes, anaErr>>
    /\ AnaFrame

(***************************************************************************)
(* Specifications                                                          *)
(***************************************************************************)
\* The analyzer on programs of every statement form except calls.
Init == LexIdle /\ DrvIdle /\ AnaInitWith(CorePrograms) /\ AstIdle /\ FoldIdle /\ ParIdle /\ TypIdle /\ GenIdle
Next ==
    \/ RegisterFunction \/ EnterFunction \/ ExitFunction
    \/ StmtDeclaration \/ StmtInput \/ StmtAssign \/ StmtIndexAssign
    \/ StmtPrint \/ StmtReturn
    \/ IfBegin \/ WhileBegin \/ ForBegin \/ BlockEnd
    \/ ElifBegin \/ ElseBegin \/ EndIf
    \/ Finish
Spec == Init /\ [][Next]_vars

\* The analyzer on programs of functions and call statements.
InitCalls == LexIdle /\ DrvIdle /\ AnaInitWith(CallPrograms) /\ AstIdle /\ FoldIdle /\ ParIdle /\ TypIdle /\ GenIdle
NextCalls ==
    \/ RegisterFunction \/ EnterFunction \/ ExitFunction \/ StmtCall \/ Finish
SpecCalls == InitCalls /\ [][NextCalls]_vars

\* _fold_expr, called again and again on one expression object.
FoldInit ==
    /\ foldIn \in FoldExprs(MaxExprNodes)
    /\ foldTree = foldIn
    /\ foldCalls = 0
FoldStep(kinds) ==
    /\ foldCalls < MaxFolds
    /\ foldTree.k \in kinds
    /\ foldTree' = _fold_expr(foldTree)
    /\ foldCalls' = foldCalls + 1
    /\ UNCHANGED foldIn
    /\ FoldFrame
FoldBinary == FoldStep({"Binary"})
FoldUnary == FoldStep({"Unary"})
FoldPower == FoldStep({"Power"})
FoldOther == FoldStep({"Number", "String", "Var", "Index"})

InitFold == LexIdle /\ DrvIdle /\ AnaIdle /\ AstIdle /\ FoldInit /\ ParIdle /\ TypIdle /\ GenIdle
NextFold == FoldBinary \/ FoldUnary \/ FoldPower \/ FoldOther
SpecFold == InitFold /\ [][NextFold]_vars

\* Analyzer(source), then analyze() on the parsed program, then further calls
\* of analyze() on the same instance.
TreeInit ==
    /\ ast \in TreePrograms
    /\ astIn = ast
    /\ analyzeCalls = 0

\* semantic.py:59-65, one call from entry to return or raise
AnalyzeReturns(r, p) ==
    /\ env_stack' = r.stack
    /\ functions' = r.table
    /\ function_depth' = r.depth
    /\ anaStatus' = IF r.ok THEN "ok" ELSE "error"
    /\ anaErr' = r.err
    /\ astIn' = p
    /\ ast' = r.program
AnalyzeStep(p) ==
    /\ AnalyzeReturns(analyze(env_stack, functions, function_depth, p), p)
    /\ analyzeCalls' = analyzeCalls + 1
    /\ UNCHANGED <<program, regIdx, fnIdx, ctl, nodes, last>>
    /\ AstFrame

\* the first call, on the tree the parser built
AnalyzeParsed == analyzeCalls = 0 /\ AnalyzeStep(ast)
\* a further call on the same Program object
AnalyzeAgain == analyzeCalls \in 1..(MaxAnalyses - 1) /\ AnalyzeStep(ast)
\* a further call on another program
AnalyzeLater ==
    /\ analyzeCalls \in 1..(MaxAnalyses - 1)
    /\ \E p \in LaterPrograms : AnalyzeStep(p)

TreeTypeOK ==
    /\ analyzeCalls \in 0..MaxAnalyses
    /\ anaStatus \in {"idle", "ok", "error"}
    /\ (analyzeCalls = 0) = (anaStatus = "idle")
    /\ Len(env_stack) >= 1

InitTree == LexIdle /\ DrvIdle /\ AnaIdle /\ TreeInit /\ FoldIdle /\ ParIdle /\ TypIdle /\ GenIdle
NextTree == AnalyzeParsed \/ AnalyzeAgain \/ AnalyzeLater
SpecTree == InitTree /\ [][NextTree]_vars

\* The lexer.
InitLexer == LexInit /\ DrvIdle /\ AnaIdle /\ AstIdle /\ FoldIdle /\ ParIdle /\ TypIdle /\ GenIdle
NextLexer == LexStep
SpecLexer == InitLexer /\ [][NextLexer]_vars

\* The driver.
InitDriver == LexIdle /\ DrvInit /\ AnaIdle /\ AstIdle /\ FoldIdle /\ ParIdle /\ TypIdle /\ GenIdle
NextDriver == DrvStep
SpecDriver == InitDriver /\ [][NextDriver]_vars

(***************************************************************************)
(* PARSER  parser.py                                                       *)
(***************************************************************************)
\* Every word the parser tests a KEYWORD token's lexeme against, each word as
\* its characters (the arguments of _match_kw, _check_kw, _consume_kw,
\* _consume_any_kw, _try_keywords and _type_name).
ParserKeywords ==
    {<<"a", "d", "d">>, <<"s", "u", "b">>,
     <<"s", "u", "b", "t", "r", "a", "c", "t">>, <<"m", "a", "k", "e">>,
     <<"a", "s">>, <<"o", "f">>, <<"s", "i", "z", "e">>,
     <<"c", "a", "l", "l">>, <<"r", "e", "t", "u", "r", "n">>,
     <<"i", "n", "p", "u", "t">>, <<"s", "e", "t">>, <<"t", "o">>,
     <<"p", "r", "i", "n", "t">>, <<"i", "f">>, <<"t", "h", "e", "n">>,
     <<"e", "l", "s", "e">>, <<"e", "n", "d">>, <<"w", "h", "i", "l", "e">>,
     <<"d", "o">>, <<"f", "o", "r">>, <<"f", "r", "o", "m">>,
     <<"f", "u", "n", "c", "t", "i", "o", "n">>, <<"f", "u", "n", "c">>,
     <<"e", "n", "d", "_", "f", "u", "n", "c", "t", "i", "o", "n">>,
     <<"e", "n", "d", "_", "f", "u", "n", "c">>, <<"w", "i", "t", "h">>,
     <<"a", "r", "g", "u", "m", "e", "n", "t", "s">>,
     <<"a", "g", "u", "m", "e", "n", "t", "s">>, <<"a", "n", "d">>,
     <<"o", "r">>, <<"n", "o", "t">>, <<"i", "s">>,
     <<"g", "r", "e", "a", "t", "e", "r">>, <<"l", "e", "s", "s">>,
     <<"t", "h", "a", "n">>, <<"e", "q", "u", "a", "l">>,
     <<"m", "u", "l", "t", "i", "p", "l", "y">>,
     <<"d", "i", "v", "i", "d", "e">>, <<"p", "o", "w", "e", "r">>,
     <<"i", "n", "t">>, <<"f", "l", "o", "a", "t">>,
     <<"s", "t", "r", "i", "n", "g">>, <<"b", "o", "o", "l">>,
     <<"l", "i", "s", "t">>, <<"a", "r", "r", "a", "y">>}

\* The punctuation token kinds the parser names besides those of SingleKind
\* and TwoCharKind, with the character each stands for.
ParserPunctuation == {":", "[", "]"}
PunctuationKind(c) ==
    CASE c = ":" -> "COLON" [] c = "[" -> "LBRACKET" [] c = "]" -> "RBRACKET"

\* ---- the parser's view of its tokens (parser.py:744-758) ----
\* The members of lexer.TokenKind (lexer.py:13-42); naming any other member
\* raises AttributeError.
TokenKind ==
    {"PLUS", "MINUS", "STAR", "SLASH", "CARET", "LPAREN", "RPAREN", "COMMA", "BANG",
     "AMP", "PIPE", "EQEQ", "EQ", "NEQ", "GT", "LT", "GTE", "LTE",
     "NUMBER", "STRING", "IDENT", "KEYWORD", "EOF"}

\* self.tokens[self.current], self.tokens[self.current - 1]
PeekTok(toks, cur) == toks[cur + 1]
PrevTok(toks, cur) == toks[cur]
AtEnd(toks, cur) == PeekTok(toks, cur).kind = "EOF"
\* self.current after _advance()
Advanced(toks, cur) == IF AtEnd(toks, cur) THEN cur ELSE cur + 1

_check_kind(toks, cur, kind) == ~AtEnd(toks, cur) /\ PeekTok(toks, cur).kind = kind
_check_kw(toks, cur, kw) ==
    /\ ~AtEnd(toks, cur)
    /\ PeekTok(toks, cur).kind = "KEYWORD" /\ PeekTok(toks, cur).lexeme = kw

\* ---- what a parsing method returns or raises ----
\* exc is "" on return; msg is the exception's message in pieces, the line and
\* column of a position as their decimal digits.
Ret(node, cur) == [exc |-> "", msg |-> <<>>, node |-> node, cur |-> cur]
Throw(exc, msg, cur) == [exc |-> exc, msg |-> msg, node |-> NoExpr, cur |-> cur]
\* f"... at {tok.line}:{tok.col}"
At(tok) == <<" at ">> \o Decimal(tok.line) \o <<":">> \o Decimal(tok.col)
\* raise ParseError(msg)
ParseError(msg, cur) == Throw("ParseError", msg, cur)
\* lexer.TokenKind.<name> for a name the enumeration lacks
AttributeError(name, cur) == Throw("AttributeError", <<name>>, cur)

\* parser.py:621-625, 634-638, 640-643: the cursor after the token, or the raise
_consume_kw(toks, cur, kw, msg) ==
    IF _check_kw(toks, cur, kw) THEN Ret(NoExpr, Advanced(toks, cur))
    ELSE ParseError(<<msg>>, cur)
_consume(toks, cur, kind, msg) ==
    IF kind \notin TokenKind THEN AttributeError(kind, cur)
    ELSE IF _check_kind(toks, cur, kind) THEN Ret(NoExpr, Advanced(toks, cur))
    ELSE ParseError(<<msg>>, cur)
_consume_ident(toks, cur, msg) ==
    IF _check_kind(toks, cur, "IDENT") THEN Ret(PeekTok(toks, cur), Advanced(toks, cur))
    ELSE ParseError(<<msg>>, cur)

\* parser.py:627-632
TypeNames == <<"int", "float", "string", "bool", "list", "array">>
_type_name(toks, cur) ==
    IF \E i \in DOMAIN TypeNames : _check_kw(toks, cur, TypeNames[i])
    THEN Ret(PeekTok(toks, cur).lexeme, Advanced(toks, cur))
    ELSE ParseError(<<"Expected type">> \o At(PeekTok(toks, cur)), cur)

\* parser.py:680-703
_is_expr_start(toks, cur) ==
    /\ ~AtEnd(toks, cur)
    /\ LET t == PeekTok(toks, cur)
       IN  \/ t.kind \in {"NUMBER", "STRING", "IDENT", "LPAREN", "PLUS", "MINUS"}
           \/ /\ t.kind = "KEYWORD"
              /\ t.lexeme \in {"add", "subtract", "multiply", "divide", "power", "not"}

\* ---- expressions (parser.py:401-509) ----
RECURSIVE _expression(_, _)
RECURSIVE _unary_expr(_, _)
RECURSIVE _power_expr(_, _)

\* `word LEFT and RIGHT` (parser.py:460-490): each step takes what the step
\* before returned or raised
WordNode(word, l, r) == IF word = "power" THEN Power(l, r) ELSE Binary(l, word, r)
WordRight(left, right, word) ==
    IF right.exc # "" THEN right
    ELSE Ret(WordNode(word, left.node, right.node), right.cur)
WordAnd(toks, left, kw, word) ==
    IF kw.exc # "" THEN kw ELSE WordRight(left, _unary_expr(toks, kw.cur), word)
WordLeft(toks, left, word, msg) ==
    IF left.exc # "" THEN left
    ELSE WordAnd(toks, left, _consume_kw(toks, left.cur, "and", msg), word)
WordForm(toks, cur, word, msg) == WordLeft(toks, _unary_expr(toks, cur + 1), word, msg)

\* `[` index `]` after a name, `(` expression `)`: the closing token after the
\* inner expression
EnclosedEnd(inner, close, kind, name) ==
    IF close.exc # "" THEN close
    ELSE Ret(IF kind = "RBRACKET" THEN Index(name, inner.node) ELSE inner.node, close.cur)
Enclosed(toks, inner, kind, msg, name) ==
    IF inner.exc # "" THEN inner
    ELSE EnclosedEnd(inner, _consume(toks, inner.cur, kind, msg), kind, name)

\* parser.py:459-509
_primary(toks, cur) ==
    LET tok == PeekTok(toks, cur)
    IN  IF \E w \in {"add", "subtract", "multiply", "divide"} : _check_kw(toks, cur, w)
        THEN WordForm(toks, cur, tok.lexeme, "Expected 'and' after left operand")
        ELSE IF _check_kw(toks, cur, "power")
        THEN WordForm(toks, cur, "power", "Expected 'and' after base")
        ELSE IF _check_kind(toks, cur, "NUMBER") THEN Ret(Number(tok.lexeme), cur + 1)
        ELSE IF _check_kind(toks, cur, "STRING") THEN Ret(String(tok.lexeme), cur + 1)
        ELSE IF _check_kind(toks, cur, "IDENT")
        THEN IF "LBRACKET" \notin TokenKind THEN AttributeError("LBRACKET", cur + 1)
             ELSE IF _check_kind(toks, cur + 1, "LBRACKET")
             THEN Enclosed(toks, _expression(toks, cur + 2), "RBRACKET",
                           "Expected ']' after index", tok.lexeme)
             ELSE Ret(Var(tok.lexeme), cur + 1)
        ELSE IF _check_kind(toks, cur, "LPAREN")
        THEN Enclosed(toks, _expression(toks, cur + 1), "RPAREN",
                      "Expected ')' after expression", tok.lexeme)
        ELSE ParseError(<<"Expected expression">> \o At(tok), cur)

\* parser.py:451-458
UnaryRight(op, right) ==
    IF right.exc # "" THEN right ELSE Ret(Unary(op, right.node), right.cur)
_unary_expr(toks, cur) ==
    IF _check_kind(toks, cur, "PLUS") \/ _check_kind(toks, cur, "MINUS")
    THEN UnaryRight(IF PeekTok(toks, cur).kind = "PLUS" THEN "+" ELSE "-",
                    _unary_expr(toks, cur + 1))
    ELSE _primary(toks, cur)

\* parser.py:443-449
PowerExponent(base, exponent) ==
    IF exponent.exc # "" THEN exponent
    ELSE Ret(Power(base.node, exponent.node), exponent.cur)
PowerBase(toks, base) ==
    IF base.exc # "" THEN base
    ELSE IF ~_check_kind(toks, base.cur, "CARET") THEN base
    ELSE PowerExponent(base, _power_expr(toks, base.cur + 1))
_power_expr(toks, cur) == PowerBase(toks, _unary_expr(toks, cur))

\* parser.py:413-441
RECURSIVE MulLoop(_, _, _)
MulRight(toks, expr, op, right) ==
    IF right.exc # "" THEN right
    ELSE MulLoop(toks, Binary(expr, op, right.node), right.cur)
MulLoop(toks, expr, cur) ==
    IF _check_kind(toks, cur, "STAR") \/ _check_kind(toks, cur, "SLASH")
    THEN MulRight(toks, expr, PeekTok(toks, cur).lexeme, _power_expr(toks, cur + 1))
    ELSE Ret(expr, cur)
MulFirst(toks, first) ==
    IF first.exc # "" THEN first ELSE MulLoop(toks, first.node, first.cur)
_mul_expr(toks, cur) == MulFirst(toks, _power_expr(toks, cur))

\* parser.py:402-428
RECURSIVE AddLoop(_, _, _)
AddRight(toks, expr, op, right) ==
    IF right.exc # "" THEN right
    ELSE AddLoop(toks, Binary(expr, op, right.node), right.cur)
AddLoop(toks, expr, cur) ==
    IF _check_kind(toks, cur, "PLUS") \/ _check_kind(toks, cur, "MINUS")
    THEN AddRight(toks, expr, PeekTok(toks, cur).lexeme, _mul_expr(toks, cur + 1))
    ELSE Ret(expr, cur)
AddFirst(toks, first) ==
    IF first.exc # "" THEN first ELSE AddLoop(toks, first.node, first.cur)
_add_expr(toks, cur) == AddFirst(toks, _mul_expr(toks, cur))
_expression(toks, cur) == _add_expr(toks, cur)

\* ---- conditions (parser.py:335-399, 736-742) ----
\* the six _match_op tests, in the order of the code
SymbolOps ==
    <<[kind |-> "EQEQ", op |-> "=="], [kind |-> "NEQ", op |-> "!="],
      [kind |-> "GTE", op |-> ">="], [kind |-> "LTE", op |-> "<="],
      [kind |-> "GT", op |-> ">"], [kind |-> "LT", op |-> "<"]>>
\* parser.py:386-395
seqs ==
    <<[seq |-> <<"greater", "than", "or", "equal", "to">>, op |-> ">="],
      [seq |-> <<"less", "than", "or", "equal", "to">>, op |-> "<="],
      [seq |-> <<"greater", "or", "equal", "to">>, op |-> ">="],
      [seq |-> <<"less", "or", "equal", "to">>, op |-> "<="],
      [seq |-> <<"greater", "than">>, op |-> ">"],
      [seq |-> <<"less", "than">>, op |-> "<"],
      [seq |-> <<"equal", "to">>, op |-> "=="],
      [seq |-> <<"not", "equal", "to">>, op |-> "!="]>>

\* parser.py:736-742 without `self.current = save`: a miss leaves the cursor
\* at the keyword that did not match
RECURSIVE KeywordsOnward(_, _, _, _)
KeywordsOnward(toks, cur, seq, i) ==
    IF i > Len(seq) THEN [ok |-> TRUE, cur |-> cur]
    ELSE IF ~_check_kw(toks, cur, seq[i]) THEN [ok |-> FALSE, cur |-> cur]
    ELSE KeywordsOnward(toks, Advanced(toks, cur), seq, i + 1)
_try_keywords_NoRestore(toks, cur, seq) == KeywordsOnward(toks, cur, seq, 1)

\* parser.py:736-742: `for kw in seq` from the i-th keyword, cursor at cur
RECURSIVE KeywordsFrom(_, _, _, _, _)
KeywordsFrom(toks, save, cur, seq, i) ==
    IF i > Len(seq) THEN [ok |-> TRUE, cur |-> cur]
    ELSE IF ~_check_kw(toks, cur, seq[i]) THEN [ok |-> FALSE, cur |-> save]
    ELSE KeywordsFrom(toks, save, Advanced(toks, cur), seq, i + 1)
_try_keywords(toks, cur, seq) == KeywordsFrom(toks, cur, cur, seq, 1)

\* parser.py:384-399: after `is`, the phrases in the order of the list
RECURSIVE PhraseFrom(_, _, _)
PhraseMatched(toks, cur, i, r) ==
    IF r.ok THEN Ret(seqs[i].op, r.cur) ELSE PhraseFrom(toks, cur, i + 1)
PhraseFrom(toks, cur, i) ==
    IF i > Len(seqs)
    THEN ParseError(<<"Expected comparison operator">> \o At(PeekTok(toks, cur)), cur)
    ELSE PhraseMatched(toks, cur, i, _try_keywords(toks, cur, seqs[i].seq))
\* parser.py:371-399
_comparison_op(toks, cur) ==
    IF \E i \in DOMAIN SymbolOps : _check_kind(toks, cur, SymbolOps[i].kind)
    THEN Ret(SymbolOps[CHOOSE i \in DOMAIN SymbolOps :
                          _check_kind(toks, cur, SymbolOps[i].kind)].op,
             cur + 1)
    ELSE IF _check_kw(toks, cur, "is") THEN PhraseFrom(toks, cur + 1, 1)
    ELSE ParseError(<<"Expected comparison operator">> \o At(PeekTok(toks, cur)), cur)

RECURSIVE _condition(_, _)
RECURSIVE _cond_not(_, _)
\* parser.py:361-369
CmpRight(left, op, right) ==
    IF right.exc # "" THEN right
    ELSE Ret(Binary(left.node, op.node, right.node), right.cur)
CmpOperator(toks, left, op) ==
    IF op.exc # "" THEN op ELSE CmpRight(left, op, _expression(toks, op.cur))
CmpLeft(toks, left) ==
    IF left.exc # "" THEN left ELSE CmpOperator(toks, left, _comparison_op(toks, left.cur))
_cond_cmp(toks, cur) ==
    IF _check_kind(toks, cur, "LPAREN")
    THEN Enclosed(toks, _condition(toks, cur + 1), "RPAREN",
                  "Expected ')' after condition", "")
    ELSE CmpLeft(toks, _expression(toks, cur))
\* parser.py:354-359
_cond_not(toks, cur) ==
    IF _check_kw(toks, cur, "not") \/ _check_kind(toks, cur, "BANG")
    THEN UnaryRight(PeekTok(toks, cur).lexeme, _cond_not(toks, cur + 1))
    ELSE _cond_cmp(toks, cur)
\* parser.py:346-352
RECURSIVE AndLoop(_, _, _)
AndRight(toks, expr, op, right) ==
    IF right.exc # "" THEN right
    ELSE AndLoop(toks, Binary(expr, op, right.node), right.cur)
AndLoop(toks, expr, cur) ==
    IF _check_kw(toks, cur, "and") \/ _check_kind(toks, cur, "AMP")
    THEN AndRight(toks, expr, PeekTok(toks, cur).lexeme, _cond_not(toks, cur + 1))
    ELSE Ret(expr, cur)
AndFirst(toks, first) ==
    IF first.exc # "" THEN first ELSE AndLoop(toks, first.node, first.cur)
_cond_and(toks, cur) == AndFirst(toks, _cond_not(toks, cur))
\* parser.py:338-344
RECURSIVE OrLoop(_, _, _)
OrRight(toks, expr, op, right) ==
    IF right.exc # "" THEN right
    ELSE OrLoop(toks, Binary(expr, op, right.node), right.cur)
OrLoop(toks, expr, cur) ==
    IF _check_kw(toks, cur, "or") \/ _check_kind(toks, cur, "PIPE")
    THEN OrRight(toks, expr, PeekTok(toks, cur).lexeme, _cond_and(toks, cur + 1))
    ELSE Ret(expr, cur)
OrFirst(toks, first) ==
    IF first.exc # "" THEN first ELSE OrLoop(toks, first.node, first.cur)
_cond_or(toks, cur) == OrFirst(toks, _cond_and(toks, cur))
\* parser.py:335-336
_condition(toks, cur) == _cond_or(toks, cur)

\* ---- statements (parser.py:65-174, 511-603) ----
RECURSIVE _statement(_, _)
\* The `while True` loop after the first value of print and return
RECURSIVE MoreValues(_, _, _)
ValueRest(toks, e, values) ==
    IF e.exc # "" THEN e ELSE MoreValues(toks, e.cur, Append(values, e.node))
MoreValues(toks, cur, values) ==
    IF _check_kind(toks, cur, "COMMA") \/ _is_expr_start(toks, cur)
    THEN ValueRest(toks,
                   _expression(toks, IF _check_kind(toks, cur, "COMMA") THEN cur + 1 ELSE cur),
                   values)
    ELSE Ret(values, cur)
\* the first value, then the loop
ValuesFrom(toks, first) ==
    IF first.exc # "" THEN first ELSE MoreValues(toks, first.cur, <<first.node>>)
\* ast.Return(values=values) or ast.Print(values=values)
ValuesNode(values, k) ==
    IF values.exc # "" THEN values
    ELSE Ret(IF k = "Return" THEN ReturnStmt(values.node) ELSE PrintStmt(values.node),
             values.cur)

\* parser.py:587-603
_return_statement(toks, cur) ==
    IF ~_is_expr_start(toks, cur) THEN Ret(ReturnStmt(<<>>), cur)
    ELSE ValuesNode(ValuesFrom(toks, _expression(toks, cur)), "Return")

\* `VALUE to|from TARGET` after the first keyword: the target and the value
\* combined, or the raise (parser.py:511-542)
InplaceTarget(value, target_tok, kind) ==
    IF target_tok.exc # "" THEN target_tok
    ELSE Ret(Assign(target_tok.node.lexeme,
                    Binary(Var(target_tok.node.lexeme),
                           IF kind = "add" THEN "+" ELSE "-", value.node),
                    NoType),
             target_tok.cur)
InplaceKw(toks, value, kw, kind) ==
    IF kw.exc # "" THEN kw
    ELSE InplaceTarget(value,
                       IF kind = "add"
                       THEN _consume_ident(toks, kw.cur, "Expected target variable after 'to'")
                       ELSE _consume_ident(toks, kw.cur,
                                           "Expected target variable after 'from'"),
                       kind)
InplaceValue(toks, value, kind) ==
    IF value.exc # "" THEN value
    ELSE InplaceKw(toks, value,
                   IF kind = "add"
                   THEN _consume_kw(toks, value.cur, "to", "Expected 'to' after add expression")
                   ELSE _consume_kw(toks, value.cur, "from",
                                    "Expected 'from' after sub expression"),
                   kind)
_inplace_update(toks, cur, kind) == InplaceValue(toks, _expression(toks, cur), kind)

\* One speculative attempt of _assignment_rhs (parser.py:548-564, 565-583):
\* exc = "restored" stands for `self.current = save`.
Restored(cur) == Throw("restored", <<>>, cur)
SpeculateTarget(value, target_tok, op) ==
    IF target_tok.exc # "" THEN target_tok
    ELSE Ret(Binary(Var(target_tok.node.lexeme), op, value.node), target_tok.cur)
SpeculateValue(toks, cur, value, kw, op, msg) ==
    IF value.exc # "" THEN value
    ELSE IF ~_check_kw(toks, value.cur, kw) THEN Restored(cur)
    ELSE SpeculateTarget(value, _consume_ident(toks, value.cur + 1, msg), op)
Speculate(toks, cur, kw, op, msg) ==
    SpeculateValue(toks, cur, _expression(toks, cur + 1), kw, op, msg)

\* parser.py:544-585
RhsSub(toks, cur, sub) ==
    IF sub.exc # "restored" THEN sub ELSE _expression(toks, cur)
RhsAdd(toks, cur, add) ==
    IF add.exc # "restored" THEN add
    ELSE RhsSub(toks, cur,
                IF _check_kw(toks, cur, "sub") \/ _check_kw(toks, cur, "subtract")
                THEN Speculate(toks, cur, "from", "-", "Expected target variable after 'from'")
                ELSE Restored(cur))
_assignment_rhs(toks, cur) ==
    RhsAdd(toks, cur,
           IF _check_kw(toks, cur, "add")
           THEN Speculate(toks, cur, "to", "+", "Expected target variable after 'to'")
           ELSE Restored(cur))

\* parser.py:70-85, after `make`
MakeSized(name, typ, size_expr) ==
    IF size_expr.exc # "" THEN size_expr
    ELSE Ret(Declaration(name, typ, size_expr.node), size_expr.cur)
MakeSize(toks, name, typ, size_kw) ==
    IF size_kw.exc # "" THEN size_kw
    ELSE MakeSized(name, typ, _expression(toks, size_kw.cur))
MakeType(toks, name, typ) ==
    IF typ.exc # "" THEN typ
    ELSE IF ~(typ.node \in {"list", "array"} /\ _check_kw(toks, typ.cur, "of"))
         THEN Ret(Declaration(name, typ.node, NoExpr), typ.cur)
    ELSE MakeSize(toks, name, typ.node,
                  _consume_kw(toks, typ.cur + 1, "size", "Expected 'size' after 'of'"))
MakeName(toks, name_tok) ==
    IF name_tok.exc # "" THEN name_tok
    ELSE IF ~_check_kw(toks, name_tok.cur, "as")
         THEN Ret(Declaration(name_tok.node.lexeme, NoType, NoExpr), name_tok.cur)
    ELSE MakeType(toks, name_tok.node.lexeme, _type_name(toks, name_tok.cur + 1))
StatementMake(toks, cur) ==
    MakeName(toks, _consume_ident(toks, cur, "Expected identifier after 'make'"))

\* parser.py:90-105, after `input` (the prompt is not kept in the node)
InputType(name, typ) ==
    IF typ.exc # "" THEN typ ELSE Ret(Input(name, typ.node), typ.cur)
InputName(toks, name_tok) ==
    IF name_tok.exc # "" THEN name_tok
    ELSE IF ~_check_kw(toks, name_tok.cur, "as")
         THEN Ret(Input(name_tok.node.lexeme, NoType), name_tok.cur)
    ELSE InputType(name_tok.node.lexeme, _type_name(toks, name_tok.cur + 1))
StatementInput(toks, cur) ==
    InputName(toks,
              _consume_ident(toks, IF _check_kind(toks, cur, "STRING") THEN cur + 1 ELSE cur,
                             "Expected identifier after 'input'"))

\* parser.py:106-135, after `set`
\* ast.IndexAssign when idx is an index expression, else ast.Assign
SetNode(name, idx, typ, value) ==
    IF idx # NoExpr THEN IndexAssign(name, idx, value) ELSE Assign(name, value, typ)
SetValue(name, idx, typ, expr) ==
    IF expr.exc # "" THEN expr ELSE Ret(SetNode(name, idx, typ, expr.node), expr.cur)
SetTo(toks, name, idx, typ, to) ==
    IF to.exc # "" THEN to ELSE SetValue(name, idx, typ, _assignment_rhs(toks, to.cur))
\* the target ends at `cur`: `to`, then the right-hand side
SetTarget(toks, name, idx, typ, cur) ==
    SetTo(toks, name, idx, typ, _consume_kw(toks, cur, "to", "Expected 'to' in assignment"))
SetIndexClose(toks, name, idx_expr, close) ==
    IF close.exc # "" THEN close
    ELSE SetTarget(toks, name, idx_expr.node, NoType, close.cur)
SetIndex(toks, name, idx_expr) ==
    IF idx_expr.exc # "" THEN idx_expr
    ELSE SetIndexClose(toks, name, idx_expr,
                       _consume(toks, idx_expr.cur, "RBRACKET", "Expected ']' after index"))
\* NAME `:` type
SetTyped(toks, name, var_type) ==
    IF var_type.exc # "" THEN var_type
    ELSE SetTarget(toks, name, NoExpr, var_type.node, var_type.cur)
SetName(toks, name_tok) ==
    IF name_tok.exc # "" THEN name_tok
    ELSE IF "LBRACKET" \notin TokenKind THEN AttributeError("LBRACKET", name_tok.cur)
    ELSE IF _check_kind(toks, name_tok.cur, "LBRACKET")
         THEN SetIndex(toks, name_tok.node.lexeme, _expression(toks, name_tok.cur + 1))
    ELSE IF "COLON" \notin TokenKind THEN AttributeError("COLON", name_tok.cur)
    ELSE IF _check_kind(toks, name_tok.cur, "COLON")
         THEN SetTyped(toks, name_tok.node.lexeme, _type_name(toks, name_tok.cur + 1))
    ELSE SetTarget(toks, name_tok.node.lexeme, NoExpr, NoType, name_tok.cur)
SetReturn(toks, ret_to) ==
    IF ret_to.exc # "" THEN ret_to ELSE _return_statement(toks, ret_to.cur)
StatementSet(toks, cur) ==
    IF _check_kw(toks, cur, "return")
    THEN SetReturn(toks, _consume_kw(toks, cur + 1, "to", "Expected 'to' after 'set return'"))
    ELSE SetName(toks, _consume_ident(toks, cur, "Expected identifier after 'set'"))

\* parser.py:136-149, after `print`
StatementPrint(toks, cur) == ValuesNode(ValuesFrom(toks, _expression(toks, cur)), "Print")

\* ---- if statements (parser.py:276-323, 704-734) ----
NoBody == NoExpr      \* else_body = None
\* parser.py:704-712
_check_pair_end(toks, cur, kind) ==
    /\ _check_kw(toks, cur, "end")
    /\ cur + 1 < Len(toks)
    /\ toks[cur + 2].kind = "KEYWORD"
    /\ toks[cur + 2].lexeme = kind
\* parser.py:714-716
_consume_pair_end(toks, cur, kind) ==
    IF ~_check_kw(toks, cur, "end")
    THEN ParseError(<<"Expected 'end' to close ", kind>>, cur)
    ELSE IF ~_check_kw(toks, cur + 1, kind)
    THEN ParseError(<<"Expected '", kind, "' after end">>, cur + 1)
    ELSE Ret(NoExpr, cur + 2)
\* parser.py:718-722, 724-734
_previous_is_kw(toks, cur, kw) ==
    cur # 0 /\ toks[cur].kind = "KEYWORD" /\ toks[cur].lexeme = kw
_previous_two_keywords_were_else_if(toks, cur) ==
    /\ cur >= 2
    /\ toks[cur - 1].kind = "KEYWORD" /\ toks[cur].kind = "KEYWORD"
    /\ toks[cur - 1].lexeme = "else" /\ toks[cur].lexeme = "if"

\* parser.py:309-323: the statements up to `end if`, or up to `else` too
RECURSIVE BlockFrom(_, _, _, _)
BlockNext(toks, stmt, stmts, or_else) ==
    IF stmt.exc # "" THEN stmt
    ELSE BlockFrom(toks, stmt.cur, Append(stmts, stmt.node), or_else)
BlockFrom(toks, cur, stmts, or_else) ==
    IF \/ AtEnd(toks, cur)
       \/ or_else /\ _check_kw(toks, cur, "else")
       \/ _check_pair_end(toks, cur, "if")
    THEN Ret(stmts, cur)
    ELSE BlockNext(toks, _statement(toks, cur), stmts, or_else)
_block_until_else_or_end(toks, cur) == BlockFrom(toks, cur, <<>>, TRUE)
_block_until_end_if(toks, cur) == BlockFrom(toks, cur, <<>>, FALSE)

\* `COND then BODY` (parser.py:277-282, 287-290)
BranchBody(cond, body) ==
    IF body.exc # "" THEN body ELSE Ret(IfBranch(cond.node, body.node), body.cur)
BranchThen(toks, cond, kw) ==
    IF kw.exc # "" THEN kw ELSE BranchBody(cond, _block_until_else_or_end(toks, kw.cur))
BranchCond(toks, cond, msg) ==
    IF cond.exc # "" THEN cond
    ELSE BranchThen(toks, cond, _consume_kw(toks, cond.cur, "then", msg))
CondBranch(toks, cur, msg) == BranchCond(toks, _condition(toks, cur), msg)

\* parser.py:300-307: `end if` and the node
IfClose(first, elifs, else_body, end) ==
    IF end.exc # "" THEN end ELSE Ret(If(first, elifs, else_body), end.cur)
IfEnd(toks, first, elifs, body) ==
    IF body.exc # "" THEN body
    ELSE IfClose(first, elifs, body.node, _consume_pair_end(toks, body.cur, "if"))
\* parser.py:297-298: else_body is None
IfSecondElse(toks, cur, first, elifs) ==
    IF _check_kw(toks, cur, "else")
    THEN IfEnd(toks, first, elifs, _block_until_end_if(toks, cur + 1))
    ELSE IfClose(first, elifs, NoBody, _consume_pair_end(toks, cur, "if"))
\* parser.py:292-295
IfElseBody(toks, cur, first, elifs) ==
    IF _previous_two_keywords_were_else_if(toks, cur)
    THEN IfSecondElse(toks, cur, first, elifs)
    ELSE IF _previous_is_kw(toks, cur, "else")
    THEN IfEnd(toks, first, elifs, _block_until_end_if(toks, cur))
    ELSE IfSecondElse(toks, cur, first, elifs)
\* parser.py:286-290: `while self._match_kw("else") and self._match_kw("if")`;
\* an `else` without `if` stays consumed
RECURSIVE ElifLoop(_, _, _, _)
ElifNext(toks, first, elifs, br) ==
    IF br.exc # "" THEN br ELSE ElifLoop(toks, br.cur, first, Append(elifs, br.node))
ElifLoop(toks, cur, first, elifs) ==
    IF _check_kw(toks, cur, "else") /\ _check_kw(toks, cur + 1, "if")
    THEN ElifNext(toks, first, elifs,
                  CondBranch(toks, cur + 2, "Expected 'then' after else if condition"))
    ELSE IfElseBody(toks, IF _check_kw(toks, cur, "else") THEN cur + 1 ELSE cur,
                    first, elifs)
IfFirstBranch(toks, br) ==
    IF br.exc # "" THEN br ELSE ElifLoop(toks, br.cur, br.node, <<>>)
\* parser.py:276-307, after `if`
_if_statement(toks, cur) ==
    IfFirstBranch(toks, CondBranch(toks, cur, "Expected 'then' after if condition"))

\* parser.py:65-174 for the statements above; the token in hand decides
_statement(toks, cur) ==
    IF \E kw \in {"add", "sub", "subtract"} : _check_kw(toks, cur, kw)
    THEN _inplace_update(toks, cur + 1, IF _check_kw(toks, cur, "add") THEN "add" ELSE "sub")
    ELSE IF _check_kw(toks, cur, "make") THEN StatementMake(toks, cur + 1)
    ELSE IF _check_kw(toks, cur, "return") THEN _return_statement(toks, cur + 1)
    ELSE IF _check_kw(toks, cur, "input") THEN StatementInput(toks, cur + 1)
    ELSE IF _check_kw(toks, cur, "set") THEN StatementSet(toks, cur + 1)
    ELSE IF _check_kw(toks, cur, "print") THEN StatementPrint(toks, cur + 1)
    ELSE IF _check_kw(toks, cur, "if") THEN _if_statement(toks, cur + 1)
    ELSE ParseError(<<"Unexpected token ", PeekTok(toks, cur).lexeme>>
                        \o At(PeekTok(toks, cur)), cur)

\* ---- token lists handed to the parser ----
\* A word of the source: its text, and its characters for the lexer's tests.
Word(text, chars) == [text |-> text, chars |-> chars]
\* The kind scan() gives the word (lexer.py:136-192, 210-224)
WordKind(w) ==
    IF w.chars \in KEYWORDS THEN "KEYWORD"
    ELSE IF w.chars[1] \in SingleOps THEN SingleKind(w.chars[1])
    ELSE IF w.chars[1] \in TwoCharOps
         THEN TwoCharKind(w.chars[1], Len(w.chars) = 2 /\ w.chars[2] = "=")
    ELSE IF \E i \in DOMAIN DigitChars : DigitChars[i] = w.chars[1] THEN "NUMBER"
    ELSE "IDENT"
\* scan() on the words written on one line with one blank between them:
\* a token's column is the column after its last character.
RECURSIVE Lexed(_, _, _)
Lexed(words, i, column) ==
    IF i > Len(words) THEN <<Token("EOF", "", 1, IF i = 1 THEN 1 ELSE column - 1)>>
    ELSE <<Token(WordKind(words[i]), words[i].text, 1, column + Len(words[i].chars))>>
         \o Lexed(words, i + 1, column + Len(words[i].chars) + 1)

WSet == Word("set", <<"s", "e", "t">>)
WPrint == Word("print", <<"p", "r", "i", "n", "t">>)
WAdd == Word("add", <<"a", "d", "d">>)
WSub == Word("sub", <<"s", "u", "b">>)
WSubtract == Word("subtract", <<"s", "u", "b", "t", "r", "a", "c", "t">>)
WMake == Word("make", <<"m", "a", "k", "e">>)
WInput == Word("input", <<"i", "n", "p", "u", "t">>)
WTo == Word("to", <<"t", "o">>)
WFrom == Word("from", <<"f", "r", "o", "m">>)
WAnd == Word("and", <<"a", "n", "d">>)
WAs == Word("as", <<"a", "s">>)
WInt == Word("int", <<"i", "n", "t">>)
WList == Word("list", <<"l", "i", "s", "t">>)
WOf == Word("of", <<"o", "f">>)
WX == Word("x", <<"x">>)
WY == Word("y", <<"y">>)
WOne == Word("1", <<"1">>)
WTwo == Word("2", <<"2">>)
WPlus == Word("+", <<"+">>)
WIf == Word("if", <<"i", "f">>)
WThen == Word("then", <<"t", "h", "e", "n">>)
WElse == Word("else", <<"e", "l", "s", "e">>)
WEnd == Word("end", <<"e", "n", "d">>)
WLess == Word("<", <<"<">>)

\* Any short line of statement words ...
StatementWords == {WSet, WPrint, WAdd, WMake, WInput, WTo, WAs, WInt, WList, WOf, WX, WOne, WPlus}
\* ... and the right-hand sides of `set x to` and of `print`.
\* a right-hand side is an expression or begins with a phrase word
RhsLeads == {<<>>, <<WAdd>>, <<WSub>>, <<WSubtract>>}
RhsWords == {WOne, WTwo, WTo, WFrom, WAnd, WY}
RhsSources(n) == {lead \o rest : lead \in RhsLeads, rest \in SeqsUpTo(RhsWords, n)}
\* two statements on one line, each a statement by itself
SingleSources ==
    {<<WPrint, WOne>>, <<WMake, WX>>, <<WAdd, WOne, WTo, WX>>,
     <<WSubtract, WOne, WFrom, WX>>}
PairSources == {a \o b : a \in SingleSources, b \in SingleSources}
\* if statements: one branch, with an else, with an `else if`, with an if
\* nested in the first body or in the else body, and with words missing
IfHead == <<WIf, WOne, WLess, WTwo, WThen>>
WordsEndIf == <<WEnd, WIf>>
IfBodies == {<<>>, <<WPrint, WOne>>}
PlainIfs == {IfHead \o b \o WordsEndIf : b \in IfBodies}
ElseIfs == {IfHead \o b \o <<WElse>> \o c \o WordsEndIf : b \in IfBodies, c \in IfBodies}
NestedIfs ==
    {IfHead \o b \o inner \o WordsEndIf : b \in IfBodies, inner \in PlainIfs}
    \cup {IfHead \o <<WElse>> \o b \o inner \o WordsEndIf :
              b \in IfBodies, inner \in PlainIfs \cup ElseIfs}
    \cup {IfHead \o <<WPrint, WOne, WElse>> \o inner : inner \in PlainIfs}
BrokenIfs ==
    {<<WIf, WOne, WLess, WTwo, WPrint, WOne>>, IfHead \o <<WPrint, WOne, WEnd>>,
     IfHead \o <<WPrint, WOne>>, IfHead \o <<WElse, WIf, WOne, WLess, WTwo>> \o WordsEndIf}
IfSources == PlainIfs \cup ElseIfs \cup NestedIfs \cup BrokenIfs
ParserSources(words, rhs_words) ==
    SeqsUpTo(StatementWords, words) \cup PairSources \cup IfSources
    \cup {<<WSet, WX, WTo>> \o rhs : rhs \in RhsSources(rhs_words)}
    \cup {<<WPrint>> \o rhs : rhs \in RhsSources(rhs_words)}
ParserInputs(words, rhs_words) ==
    {Lexed(ws, 1, 1) : ws \in ParserSources(words, rhs_words)}

\* ---- parse() as a state machine (parser.py:45-62) ----
\* Parser(tokens), then parse() up to its loop
ParInit ==
    /\ ptokens \in ParserInputs(MaxWords, MaxRhs)
    /\ current = 0
    /\ parsed = <<>>
    /\ parStatus = "parsing"
    /\ parErr = <<>>
    /\ cmpSave = 0 /\ cmpIdx = 0 /\ cmpOp = ""

\* One iteration of the loop: `stmts.append(self._statement())` for a
\* statement that starts with one of the keywords.
StatementLeaves(r) ==
    /\ current' = r.cur
    /\ parsed' = IF r.exc = "" THEN Append(parsed, r.node) ELSE parsed
    /\ parStatus' = IF r.exc = "" THEN parStatus ELSE r.exc
    /\ parErr' = r.msg
ParseStatement(kws) ==
    /\ parStatus = "parsing"
    /\ ~AtEnd(ptokens, current)
    /\ \E kw \in kws : _check_kw(ptokens, current, kw)
    /\ StatementLeaves(_statement(ptokens, current))
    /\ UNCHANGED <<ptokens, cmpSave, cmpIdx, cmpOp>>
    /\ ParFrame

StatementKeywords ==
    {"add", "sub", "subtract", "make", "return", "input", "set", "print", "if"}
ParseInplace == ParseStatement({"add", "sub", "subtract"})
ParseMake == ParseStatement({"make"})
ParseInput == ParseStatement({"input"})
ParseSet == ParseStatement({"set"})
ParsePrint == ParseStatement({"print"})
ParseIf == ParseStatement({"if"})

\* parser.py:173-174: no statement starts with the token in hand
ParseUnexpected ==
    /\ parStatus = "parsing"
    /\ ~AtEnd(ptokens, current)
    /\ \A kw \in StatementKeywords : ~_check_kw(ptokens, current, kw)
    /\ StatementLeaves(_statement(ptokens, current))
    /\ UNCHANGED <<ptokens, cmpSave, cmpIdx, cmpOp>>
    /\ ParFrame

\* parser.py:49, 53-62: the loop ends at EOF and parse() returns the Program
ParseReturn ==
    /\ parStatus = "parsing"
    /\ AtEnd(ptokens, current)
    /\ parStatus' = "returned"
    /\ UNCHANGED <<ptokens, current, parsed, parErr, cmpSave, cmpIdx, cmpOp>>
    /\ ParFrame

InitParser == LexIdle /\ DrvIdle /\ AnaIdle /\ AstIdle /\ FoldIdle /\ ParInit /\ TypIdle /\ GenIdle
NextParser ==
    \/ ParseInplace \/ ParseMake \/ ParseInput \/ ParseSet \/ ParsePrint \/ ParseIf
    \/ ParseUnexpected \/ ParseReturn
SpecParser == InitParser /\ [][NextParser]_vars

(***************************************************************************)
(* CODE GENERATOR  codegen.py                                              *)
(***************************************************************************)
\* An emitted line: its indentation and what its C++ text does with names.
\* `T NAME ...;` declares NAME, `NAME = e;` and `NAME[i] = e;` assign it, a
\* line ending in `{` opens a block, and `for (auto V = ...` or a function
\* signature declares its names in the block it opens.
Line(ind, form, declares, assigns, uses) ==
    [indent |-> ind, form |-> form, declares |-> declares, assigns |-> assigns,
     uses |-> uses]
\* A Codegen instance as a record, so that its methods are operators.
Codegen(lns, ind, env) == [lines |-> lns, indent |-> ind, env |-> env, exc |-> ""]
\* codegen.py:323-330
_emit(g, form, declares, assigns, uses) ==
    [g EXCEPT !.lines = Append(@, Line(g.indent, form, declares, assigns, uses))]
_push(g) == [g EXCEPT !.indent = @ + 1]
_pop(g) == [g EXCEPT !.indent = IF @ > 0 THEN @ - 1 ELSE 0]
\* self.env[name] = t
WithEnv(g, name, t) ==
    [g EXCEPT !.env = [n \in DOMAIN @ \cup {name} |-> IF n = name THEN t ELSE @[n]]]

\* codegen.py:288-300; None is NoType
_binary_result_type(op, left, right) ==
    IF op \in {"+", "-", "*", "/", "add", "subtract", "multiply", "divide"}
    THEN IF "float" \in {left, right} THEN "float"
         ELSE IF left = "int" /\ right = "int" THEN "int"
         ELSE IF left # NoType THEN left ELSE right
    ELSE IF op \in {"==", "!=", ">", "<", ">=", "<=", "and", "or", "&", "|"} THEN "bool"
    ELSE NoType
\* codegen.py:237-266: the type _expr returns with the code
RECURSIVE Codegen_expr(_, _)
PowerType(base_type, exp_type) ==
    IF base_type \in {"int", "float"} /\ exp_type \in {"int", "float"}
    THEN IF "float" \in {base_type, exp_type} THEN "float" ELSE "int"
    ELSE NoType
Codegen_expr(env, node) ==
    CASE node.k = "Number" -> IF _is_float_literal(node.value) THEN "float" ELSE "int"
      [] node.k = "String" -> "string"
      [] node.k = "Var" -> IF node.name \in DOMAIN env THEN env[node.name] ELSE NoType
      [] node.k = "Index" -> "float"
      [] node.k = "Unary" ->
            IF node.op = "not" THEN "bool" ELSE Codegen_expr(env, node.right)
      [] node.k = "Binary" ->
            _binary_result_type(node.op, Codegen_expr(env, node.left),
                                Codegen_expr(env, node.right))
      [] node.k = "Power" ->
            PowerType(Codegen_expr(env, node.base), Codegen_expr(env, node.exponent))
\* ... and the names its code mentions
RECURSIVE ExprNames(_)
ExprNames(node) ==
    CASE node.k = "Var" -> {node.name}
      [] node.k = "Index" -> {node.name} \cup ExprNames(node.index)
      [] node.k = "Unary" -> ExprNames(node.right)
      [] node.k = "Binary" -> ExprNames(node.left) \cup ExprNames(node.right)
      [] node.k = "Power" -> ExprNames(node.base) \cup ExprNames(node.exponent)
      [] OTHER -> {}
ListNames(values) == UNION {ExprNames(values[i]) : i \in DOMAIN values}

\* codegen.py:72-152
RECURSIVE Codegen_stmt(_, _)
RECURSIVE GenBody(_, _, _)
\* `for s in body: self._stmt(s)`
GenBody(g, body, i) ==
    IF i > Len(body) THEN g ELSE GenBody(Codegen_stmt(g, body[i]), body, i + 1)
\* _push(), the body, _pop() and `}` after the line that opened the block
GenBlock(g, body) == _emit(_pop(GenBody(_push(g), body, 1)), "close", {}, {}, {})
\* codegen.py:73-86
GenDeclaration(g, node) ==
    _emit(WithEnv(g, node.name, IF node.type = NoType THEN "float" ELSE node.type),
          "declare", {node.name}, {},
          IF node.type \in {"list", "array"} /\ node.size # NoExpr
          THEN ExprNames(node.size) ELSE {})
\* codegen.py:87-94, 317-320; the Input nodes here carry no prompt
GenInput(g, node) ==
    IF node.type # NoType
    THEN _emit(_emit(WithEnv(g, node.name, node.type), "declare", {node.name}, {}, {}),
               "use", {}, {}, {node.name})
    ELSE _emit(g, "use", {}, {}, {node.name})
\* codegen.py:95-106
AssignType(node, expr_type) ==
    IF node.type # NoType THEN node.type
    ELSE IF expr_type # NoType THEN expr_type ELSE "auto"
GenAssign(g, node) ==
    IF node.name \in DOMAIN g.env
    THEN IF node.type # NoType
         THEN WithEnv(_emit(g, "assign", {}, {node.name}, ExprNames(node.expr)),
                      node.name, node.type)
         ELSE _emit(g, "assign", {}, {node.name}, ExprNames(node.expr))
    ELSE _emit(WithEnv(g, node.name, AssignType(node, Codegen_expr(g.env, node.expr))),
               "declare", {node.name}, {}, ExprNames(node.expr))
\* codegen.py:154-176; <<>> is the absent else body
RECURSIVE GenElifs(_, _, _)
GenElifs(g, elifs, i) ==
    IF i > Len(elifs) THEN g
    ELSE GenElifs(GenBlock(_emit(g, "open", {}, {}, ExprNames(elifs[i].cond)),
                           elifs[i].body),
                  elifs, i + 1)
GenElse(g, else_body) ==
    IF else_body = <<>> THEN g ELSE GenBlock(_emit(g, "open", {}, {}, {}), else_body)
_if_stmt(g, node) ==
    GenElse(GenElifs(GenBlock(_emit(g, "open", {}, {}, ExprNames(node.first.cond)),
                              node.first.body),
                     node.elifs, 1),
            node.else_body)
Codegen_stmt(g, node) ==
    CASE node.k = "Declaration" -> GenDeclaration(g, node)
      [] node.k = "Input" -> GenInput(g, node)
      [] node.k = "Assign" -> GenAssign(g, node)
      [] node.k = "IndexAssign" ->
            _emit(g, "assign", {}, {node.name},
                  ExprNames(node.index) \cup ExprNames(node.expr))
      [] node.k = "Print" -> _emit(g, "use", {}, {}, ListNames(node.values))
      [] node.k = "If" -> _if_stmt(g, node)
      [] node.k = "While" ->
            GenBlock(_emit(g, "open", {}, {}, ExprNames(node.cond)), node.body)
      [] node.k = "For" ->
            GenBlock(_emit(g, "open", {node.var}, {},
                           ExprNames(node.start) \cup ExprNames(node.end)),
                     node.body)
      [] node.k = "Call" ->
            _emit(g, "use", {}, {},
                  UNION {ExprNames(node.args[i].value) : i \in DOMAIN node.args})
      [] node.k = "Return" -> _emit(g, "use", {}, {}, ListNames(node.values))

\* codegen.py:178-205
RECURSIVE ParamEnv(_, _, _)
ParamEnv(g, params, i) ==
    IF i > Len(params) THEN g
    ELSE ParamEnv(IF params[i].name \in DOMAIN g.env THEN g
                  ELSE WithEnv(g, params[i].name,
                               IF params[i].type = NoType THEN "auto" ELSE params[i].type),
                  params, i + 1)
DefaultNames(params) ==
    UNION {IF params[i].default = NoExpr THEN {} ELSE ExprNames(params[i].default) :
              i \in DOMAIN params}
_emit_function(g, fn) ==
    [GenBlock(_emit(ParamEnv([g EXCEPT !.env = EmptyGenEnv], fn.params, 1),
                    "open", {fn.params[i].name : i \in DOMAIN fn.params}, {},
                    DefaultNames(fn.params)),
              fn.body)
        EXCEPT !.env = g.env]

\* codegen.py:24-56: the calls generate() makes before the program's own code;
\* "push" and "pop" are self._push() and self._pop(), any other entry holds
\* the arguments of one self._emit(...) call.
PushCall == [method |-> "_push", args |-> <<>>]
PopCall == [method |-> "_pop", args |-> <<>>]
EmitCall(args) == [method |-> "_emit", args |-> args]
Prelude ==
    << EmitCall(<<"#include <iostream>">>),
       EmitCall(<<"#include <cmath>">>),
       EmitCall(<<"#include <string>">>),
       EmitCall(<<"#include <tuple>">>),
       EmitCall(<<"#include <vector>">>),
       EmitCall(<<"#include <sstream>">>),
       EmitCall(<<"using namespace std;">>),
       EmitCall(<<"">>),
       EmitCall(<<"// Runtime helpers (keep small; ready for future library extraction)">>),
       EmitCall(<<"namespace write_runtime {">>),
       PushCall,
       EmitCall(<<"template <typename T>">>),
       EmitCall(<<"inline void read_value(T& v) { cin >> v; }">>),
       EmitCall(<<"inline void read_value(std::string& v) { getline(cin >> ws, v); }">>),
       EmitCall(<<"inline std::string fmt_vector(const std::vector<double>& v) {">>),
       PushCall,
       EmitCall(<<"std::ostringstream oss;">>),
       EmitCall(<<"oss << '[';">>),
       EmitCall(<<"for (size_t i = 0; i < v.size(); ++i) {">>),
       PushCall,
       EmitCall(<<"if (i) oss << ", ";">>),
       EmitCall(<<"oss << v[i];">>),
       PopCall,
       EmitCall(<<"}">>),
       EmitCall(<<"oss << ']';">>),
       EmitCall(<<"return oss.str();">>),
       PopCall,
       EmitCall(<<"}">>),
       PopCall,
       EmitCall(<<"} // namespace write_runtime">>),
       EmitCall(<<"">>) >>
\* _emit(self, line) takes one argument: a call with more raises TypeError
EmitParams == 1
RECURSIVE RunPrelude(_, _)
RunPrelude(g, i) ==
    IF i > Len(Prelude) THEN g
    ELSE IF Prelude[i] = PushCall THEN RunPrelude(_push(g), i + 1)
    ELSE IF Prelude[i] = PopCall THEN RunPrelude(_pop(g), i + 1)
    ELSE IF Len(Prelude[i].args) # EmitParams THEN [g EXCEPT !.exc = "TypeError"]
    ELSE RunPrelude(_emit(g, "text", {}, {}, {}), i + 1)
\* codegen.py:57-59
RECURSIVE GenFunctions(_, _, _)
GenFunctions(g, fns, i) ==
    IF i > Len(fns) THEN g
    ELSE GenFunctions(_emit(_emit_function(g, fns[i]), "text", {}, {}, {}), fns, i + 1)
\* codegen.py:61-69
GenMain(g, statements) ==
    _emit(_pop(_emit(GenBody([_push(_emit(g, "open", {}, {}, {}))
                                 EXCEPT !.env = EmptyGenEnv],
                             statements, 1),
                     "text", {}, {}, {})),
          "close", {}, {}, {})
GenProgram(g, p) ==
    IF g.exc # "" THEN g ELSE GenMain(GenFunctions(g, p.functions, 1), p.statements)
\* codegen.py:20-69
generate(p) == GenProgram(RunPrelude(Codegen(<<>>, 0, EmptyGenEnv), 1), p)

\* ---- programs handed to the analyzer and then to the generator ----
GenAssignY == Assign("y", Num1, NoType)
GenBodies ==
    {<<>>, <<GenAssignY>>, <<Declaration("y", "int", NoExpr)>>,
     <<GenAssignY, PrintStmt(<<Var("y")>>)>>}
GenFlat ==
    {GenAssignY, Assign("y", Binary(Var("y"), "+", Num1), NoType),
     Declaration("y", "int", NoExpr), PrintStmt(<<Var("y")>>), Input("y", NoType)}
GenNested ==
    {If(IfBranch(TreeCond, b), <<>>, eb) : b \in GenBodies, eb \in {<<>>, <<GenAssignY>>}}
    \cup {While(TreeCond, b) : b \in GenBodies}
    \cup {For("x", Num1, OnePlusOne, b) : b \in GenBodies}
GenFunctionLists ==
    {<<>>, <<FunctionBody("f", <<Param("y", NoType, NoExpr)>>, <<GenAssignY>>)>>}
GenPrograms(n) ==
    {Program(fs, ss) : fs \in GenFunctionLists, ss \in SeqsUpTo(GenFlat \cup GenNested, n)}

\* Analyzer(source) and Codegen() constructed, the program parsed
GenInit ==
    /\ ast \in GenPrograms(MaxGenStmts)
    /\ astIn = ast
    /\ analyzeCalls = 0
    /\ lines = <<>>
    /\ indent = 0
    /\ genEnv = EmptyGenEnv
    /\ genStatus = "constructed"
    /\ genIdx = 0

GenLeaves(g) ==
    /\ lines' = g.lines
    /\ indent' = g.indent
    /\ genEnv' = g.env
GenReturns(g) ==
    /\ GenLeaves(g)
    /\ genStatus' = IF g.exc = "" THEN "returned" ELSE g.exc
\* writec.py:71-72 after the analyzer accepted the program: generate(program)
\* from entry to return or raise
Generate ==
    /\ anaStatus = "ok"
    /\ genStatus = "constructed"
    /\ GenReturns(generate(ast))
    /\ UNCHANGED genIdx
    /\ GenFrame
\* codegen.py:64-65 on the instance: self._stmt(stmt) for the next top-level
\* statement of the accepted program
GenStatement(kinds) ==
    /\ anaStatus = "ok"
    /\ genStatus \in {"constructed", "statements"}
    /\ genIdx < Len(ast.statements)
    /\ ast.statements[genIdx + 1].k \in kinds
    /\ GenLeaves(Codegen_stmt(Codegen(lines, indent, genEnv), ast.statements[genIdx + 1]))
    /\ genStatus' = "statements"
    /\ genIdx' = genIdx + 1
    /\ GenFrame
GenStmtAssign == GenStatement({"Assign"})
GenStmtBlock == GenStatement({"If", "While", "For"})
GenStmtOther == GenStatement({"Declaration", "Input", "Print"})

InitCodegen ==
    LexIdle /\ DrvIdle /\ AnaIdle /\ FoldIdle /\ ParIdle /\ TypIdle /\ GenInit
NextCodegen == AnalyzeParsed \/ Generate \/ GenStmtAssign \/ GenStmtBlock \/ GenStmtOther
SpecCodegen == InitCodegen /\ [][NextCodegen]_vars

(***************************************************************************)
(* Properties                                                              *)
(***************************************************************************)
IsPrefix(a, b) == Len(a) <= Len(b) /\ SubSeq(b, 1, Len(a)) = a

EOFCount(toks) == Cardinality({i \in DOMAIN toks : toks[i].kind = "EOF"})

\* C1: whenever scan() of a freshly constructed Lexer returns, the token list
\* ends with the EOF token and holds exactly one EOF token.
C1_ScanEndsWithOneEOF ==
    (lexStatus = "returned" /\ scans = 1) =>
        /\ tokens # <<>>
        /\ tokens[Len(tokens)].kind = "EOF"
        /\ EOFCount(tokens) = 1

\* a first scan that returned several tokens before the EOF token
C1_Witness ==
    /\ lexStatus = "returned" /\ scans = 1
    /\ Len(tokens) >= 3
    /\ tokens[1].kind = "STRING"

\* C2: the driver runs lex, parse, analyze, codegen in that order; once a stage
\* raises, no later stage runs, the output file is not written, one diagnostic
\* is reported and main returns 1.
C2_FailFast ==
    /\ IsPrefix(drvStages, StageOrder)
    /\ \A i \in DOMAIN drvStages :
         drvStages[i] = drvOutcome.raises =>
            /\ i = Len(drvStages)
            /\ ~drvWritten
            /\ drvDiags = 1
            /\ drvExit = 1
            /\ drvPc = "done"

\* the analyzer raised after lexing and parsing went through
C2_Witness ==
    /\ drvOutcome.raises = "analyze"
    /\ drvStages = <<"lex", "parse", "analyze">>
    /\ drvPc = "done" /\ drvExit = 1 /\ ~drvWritten

\* C3: when a block (branch body, while body, for body, function body) has
\* ended, every name resolves exactly as it did before the block was entered,
\* so a name first bound inside it is unresolvable and a reference to it raises
\* 'undefined variable'; inside a block a name resolves to its innermost
\* binding, enclosing scopes included.
Unbound(stack, n) == \A i \in DOMAIN stack : n \notin DOMAIN stack[i]
Innermost(stack, n, i) ==
    /\ n \in DOMAIN stack[i]
    /\ \A j \in DOMAIN stack : j > i => n \notin DOMAIN stack[j]

C3_BlockScoping ==
    /\ last.k = "BlockEnd" => Resolve(env_stack) = last.snap
    /\ \A n \in VarNames :
         /\ Unbound(env_stack, n) => _lookup(env_stack, n) = NoBinding
         /\ \A i \in DOMAIN env_stack :
              Innermost(env_stack, n, i) => _lookup(env_stack, n) = env_stack[i][n]
    /\ (/\ last.k = "Print"
        /\ last.values[1].k = "Var"
        /\ Unbound(env_stack, last.values[1].name))
         => (anaStatus = "error" /\ anaErr = "undefined variable")

\* a block inside a function body has ended in which a name was bound that no
\* enclosing scope binds
C3_Witness ==
    /\ last.k = "BlockEnd" /\ last.kind \in {"if", "elif", "else", "while", "for"}
    /\ Len(env_stack) = 2
    /\ \E n \in last.bound : last.snap[n] = NoBinding /\ Unbound(env_stack, n)

\* C4: a literal index into a container of known literal size is rejected as
\* out of bounds iff it is not in 0 .. size-1, for reads and for writes.
IndexAccess(node) ==
    \/ node.k = "IndexAssign"
    \/ node.k = "Assign" /\ node.type = NoType /\ node.expr.k = "Index"
    \/ node.k = "Print" /\ node.values[1].k = "Index"
AccessName(node) ==
    IF node.k = "IndexAssign" THEN node.name
    ELSE IF node.k = "Assign" THEN node.expr.name ELSE node.values[1].name
AccessIndex(node) ==
    IF node.k = "IndexAssign" THEN node.index
    ELSE IF node.k = "Assign" THEN node.expr.index ELSE node.values[1].index
LiteralAccess(node, stack) ==
    /\ IndexAccess(node)
    /\ AccessIndex(node) \in IndexLiterals
    /\ _lookup(stack, AccessName(node)).name \in ContainerTypes
    /\ _lookup(stack, AccessName(node)).size # NoSize

C4_LiteralIndexBounds ==
    LiteralAccess(last, env_stack) =>
        LET n == _lookup(env_stack, AccessName(last)).size[1]
            i == PyInt(AccessIndex(last).value)[1]
        IN  (anaErr = "index out of bounds") <=> ~(0 <= i /\ i < n)

\* a read at the index equal to the size is rejected
C4_Witness ==
    /\ LiteralAccess(last, env_stack)
    /\ last.k = "Assign"
    /\ PyInt(AccessIndex(last).value)[1] = _lookup(env_stack, AccessName(last)).size[1]
    /\ anaErr = "index out of bounds"

\* C5 (as claimed): an untyped assignment to a name bound with type T is
\* accepted iff the right-hand side's type is T, or T is float and the
\* right-hand side is int or float, or both are numeric.
UntypedAssignStep ==
    /\ nodes' = nodes + 1
    /\ last'.k = "Assign" /\ last'.type = NoType
    /\ _lookup(env_stack, last'.name) # NoBinding
    /\ _expr(env_stack, last'.expr).ok
ClaimedAssignable(T, t) ==
    \/ t = T
    \/ T = "float" /\ t \in {"int", "float"}
    \/ T \in Numeric /\ t \in Numeric

C5_AsClaimed ==
    [][UntypedAssignStep =>
         ((anaStatus' = "running") <=>
            ClaimedAssignable(_lookup(env_stack, last'.name).name,
                              _expr(env_stack, last'.expr).t))]_vars

\* C5 (amended): an untyped assignment to a name bound with type T is accepted
\* iff T is auto, or the right-hand side's type is auto, or the right-hand
\* side's type is T, or both are numeric; otherwise 'cannot assign' is raised.
C5_Amended ==
    [][UntypedAssignStep =>
         LET T == _lookup(env_stack, last'.name).name
             t == _expr(env_stack, last'.expr).t
         IN  /\ (anaStatus' = "running") <=>
                   (T = "auto" \/ t = "auto" \/ ClaimedAssignable(T, t))
             /\ anaStatus' = "error" => anaErr' = "cannot assign"]_vars

\* a string was assigned to a name declared without a type, and accepted
C5_Witness ==
    /\ last.k = "Assign" /\ last.type = NoType /\ last.expr = Str
    /\ anaStatus = "running"
    /\ _lookup(env_stack, last.name).name = "auto"

\* C6: when the first function body is walked the function table holds the
\* signature of every function of the program, so a call to a function of the
\* program never raises 'undefined function', wherever the callee is defined.
SigOf(fn) ==
    FunctionSig(fn.name,
                [i \in DOMAIN fn.params |->
                    ParamInfo(fn.params[i].name, fn.params[i].type,
                              fn.params[i].default # NoExpr)])
BodiesStarted == ctl # <<>> \/ fnIdx > 1 \/ last.k \in {"Function", "Call", "Done"}

C6_SignaturesBeforeBodies ==
    /\ BodiesStarted =>
         \A i \in DOMAIN program : FnGet(functions, program[i].name) = SigOf(program[i])
    /\ (last.k = "Call" /\ \E i \in DOMAIN program : program[i].name = last.name)
         => anaErr # "undefined function"

\* in the body of the first function a call to the second function is accepted
C6_Witness ==
    /\ last.k = "Call" /\ anaStatus = "running"
    /\ Len(program) = 2 /\ fnIdx = 1 /\ ctl # <<>>
    /\ last.name = program[2].name /\ last.name # program[1].name
    /\ Len(last.args) = 1

\* C7: a call with k positional arguments (none named) to a function of n
\* parameters passes the arity tests iff k <= n and every parameter after the
\* k-th has a default.
PositionalCall ==
    /\ last.k = "Call"
    /\ FnGet(functions, last.name) # NoSig
    /\ \A i \in DOMAIN last.args : last.args[i].name = NoName
ArityOK(args, params) ==
    /\ Len(args) <= Len(params)
    /\ \A i \in DOMAIN params : i > Len(args) => params[i].has_default
ArityErrors == {"too many arguments", "missing argument"}

C7_Arity ==
    PositionalCall =>
        LET params == FnGet(functions, last.name).params
        IN  /\ anaStatus = "running" => ArityOK(last.args, params)
            /\ ArityOK(last.args, params) => anaErr \notin ArityErrors
            /\ ~ArityOK(last.args, params) => anaStatus = "error"
            /\ (~ArityOK(last.args, params) /\ anaErr # "cannot assign")
                 => anaErr \in ArityErrors

\* a call that omits a defaulted parameter is accepted
C7_Witness ==
    /\ PositionalCall /\ anaStatus = "running"
    /\ Len(last.args) = 1
    /\ Len(FnGet(functions, last.name).params) = 2

\* C8: a named argument that names no parameter of the callee, or a parameter
\* an earlier argument of the call has supplied, makes the call raise.
PositionalBefore(args, j) == Cardinality({m \in 1..j : args[m].name = NoName})
SuppliedBefore(args, i, params, name) ==
    \E j \in 1..(i - 1) :
        \/ args[j].name = name
        \/ /\ args[j].name = NoName
           /\ PositionalBefore(args, j) <= Len(params)
           /\ params[PositionalBefore(args, j)].name = name
BadNamedArg(args, params) ==
    \E i \in DOMAIN args :
        /\ args[i].name # NoName
        /\ \/ \A m \in DOMAIN params : params[m].name # args[i].name
           \/ SuppliedBefore(args, i, params, args[i].name)

C8_NamedArguments ==
    (/\ last.k = "Call"
     /\ FnGet(functions, last.name) # NoSig
     /\ BadNamedArg(last.args, FnGet(functions, last.name).params))
        => anaStatus = "error"

\* a named argument repeats the parameter a positional argument supplied
C8_Witness ==
    /\ last.k = "Call" /\ anaErr = "duplicate argument"
    /\ Len(last.args) = 2 /\ last.args[1].name = NoName

\* C9: a return statement whose values check is accepted iff it lies in a
\* function body, at any block depth; elsewhere it raises
\* "'return' outside function".
InFunctionBody == ctl # <<>> /\ ctl[1].kind = "fn"

C9_ReturnOnlyInFunction ==
    last.k = "Return" =>
        /\ ~InFunctionBody => (anaStatus = "error" /\ anaErr = "'return' outside function")
        /\ InFunctionBody => anaErr # "'return' outside function"
        /\ (InFunctionBody /\ ExprList(env_stack, last.values, 1).ok) => anaStatus = "running"

\* a return inside a block inside a function body is accepted
C9_Witness ==
    /\ last.k = "Return" /\ anaStatus = "running"
    /\ Len(ctl) = 2 /\ ctl[1].kind = "fn"

\* C10: a Declaration, or an Input with a type, of a name bound in the current
\* scope raises 'already declared' and leaves every scope as it was.
RedeclarationStep ==
    /\ nodes' = nodes + 1
    /\ \/ last'.k = "Declaration"
       \/ last'.k = "Input" /\ last'.type # NoType
    /\ last'.name \in DOMAIN _env(env_stack)

C10_NoRedeclaration ==
    [][RedeclarationStep =>
         /\ anaStatus' = "error"
         /\ anaErr' = "already declared"
         /\ env_stack' = env_stack]_vars

\* a redeclaration was rejected in a block inside a function body
C10_Witness ==
    /\ last.k = "Declaration" /\ anaErr = "already declared"
    /\ Len(env_stack) = 3

\* C11: an Input without a type is accepted iff its name is bound in the
\* current or an enclosing scope, and it leaves every scope as it was; an Input
\* with a type does what a Declaration of that name and type does: when
\* accepted it binds the name to that type in the current scope and changes
\* nothing else.
InputStep == nodes' = nodes + 1 /\ last'.k = "Input"
OnlyCurrentScopeBinds(before, after, name, info) ==
    /\ Len(after) = Len(before)
    /\ \A i \in 1..(Len(before) - 1) : after[i] = before[i]
    /\ DOMAIN _env(after) = DOMAIN _env(before) \cup {name}
    /\ _env(after)[name] = info
    /\ \A n \in DOMAIN _env(before) : n # name => _env(after)[n] = _env(before)[n]

C11_InputRule ==
    [][InputStep =>
         IF last'.type = NoType
         THEN /\ (anaStatus' = "running") <=> (_lookup(env_stack, last'.name) # NoBinding)
              /\ anaStatus' = "error" => anaErr' = "not declared before input"
              /\ env_stack' = env_stack
         ELSE LET d == DoDeclaration(env_stack, Declaration(last'.name, last'.type, NoExpr))
              IN  /\ (anaStatus' = "running") <=> d.ok
                  /\ anaErr' = d.err
                  /\ env_stack' = d.stack
                  /\ anaStatus' = "running" =>
                        OnlyCurrentScopeBinds(env_stack, env_stack', last'.name,
                                              TypeInfo(last'.type, NoSize))]_vars

\* inside a block an untyped Input of a name bound only in an enclosing scope
\* was accepted
C11_Witness ==
    /\ last.k = "Input" /\ last.type = NoType /\ anaStatus = "running"
    /\ Len(env_stack) >= 2
    /\ last.name \notin DOMAIN _env(env_stack)

\* C13: every word the parser matches as a keyword is scanned as a KEYWORD
\* token, and ':', '[' and ']' are scanned as COLON, LBRACKET and RBRACKET
\* tokens instead of being rejected.
C13_VocabularyCovered ==
    /\ \A i \in DOMAIN tokens :
          (tokens[i].kind \in {"IDENT", "KEYWORD"} /\ tokens[i].lexeme \in ParserKeywords)
             => tokens[i].kind = "KEYWORD"
    /\ \A i \in DOMAIN tokens :
          (tokens[i].kind # "STRING" /\ Len(tokens[i].lexeme) = 1
              /\ tokens[i].lexeme[1] \in ParserPunctuation)
             => tokens[i].kind = PunctuationKind(tokens[i].lexeme[1])
    /\ ~(lexStatus = "LexerError" /\ source[start + 1] \in ParserPunctuation)

\* C14: scanning a string literal raises LexerError when the input ends
\* before the closing quote and when a newline occurs before the closing
\* quote; a quote after a backslash does not close the literal.  Otherwise the
\* literal becomes one STRING token holding the text between the quotes.
RECURSIVE EscapedAt(_, _, _)
EscapedAt(src, from, k) ==
    k > from /\ src[k - 1] = "\\" /\ ~EscapedAt(src, from, k - 1)
ClosingQuotes(src, from) ==
    {k \in from..Len(src) : src[k] = "\"" /\ ~EscapedAt(src, from, k)}
Least(S) == CHOOSE k \in S : \A m \in S : k <= m
StringStep ==
    /\ lexStatus = "scanning" /\ pos < Len(source) /\ source[pos + 1] = "\""
    /\ pos' # pos
C14_StringLiterals ==
    [][StringStep =>
         LET body == pos + 2
             closes == ClosingQuotes(source, body)
         IN  IF closes = {} THEN lexStatus' = "LexerError"
             ELSE LET q == Least(closes)
                  IN  IF \E k \in body..(q - 1) : source[k] = "\n"
                      THEN lexStatus' = "LexerError"
                      ELSE /\ lexStatus' = "scanning"
                           /\ pos' = q
                           /\ tokens' = Append(tokens,
                                   Token("STRING", SubSeq(source, body, q - 1), line', col'))]_vars

\* C15: folding is idempotent: a _fold_expr call on an expression that has
\* been folded leaves it as it is, and a _fold_expr call on a Number literal
\* returns that literal.
C15_FoldIdempotent ==
    [][(foldCalls' = foldCalls + 1 /\ (foldCalls >= 1 \/ foldTree.k = "Number"))
          => foldTree' = foldTree]_vars

\* an expression with operators inside operators was folded to one literal
\* and folded again
C15_Witness ==
    /\ foldCalls = 2
    /\ foldIn.k = "Binary" /\ foldIn.left.k \in {"Unary", "Binary", "Power"}
    /\ foldTree.k = "Number" /\ foldTree # foldIn.left /\ foldTree # foldIn.right

\* ---- constant folding over a program ----
\* An arithmetic node on numeric literals whose evaluation succeeds.
FoldableNode(e) ==
    \/ /\ e.k = "Binary" /\ e.op \in ArithOps
       /\ e.left.k = "Number" /\ e.right.k = "Number"
       /\ NodeValue(e, e.left, e.right).r = "val"
    \/ /\ e.k = "Unary" /\ e.op \in {"+", "-"}
       /\ e.right.k = "Number"
       /\ NodeValue(e, e.right, e.right).r = "val"
    \/ /\ e.k = "Power"
       /\ e.base.k = "Number" /\ e.exponent.k = "Number"
       /\ NodeValue(e, e.base, e.exponent).r = "val"

RECURSIVE HasFoldable(_)
HasFoldable(e) ==
    \/ FoldableNode(e)
    \/ e.k = "Binary" /\ (HasFoldable(e.left) \/ HasFoldable(e.right))
    \/ e.k = "Unary" /\ HasFoldable(e.right)
    \/ e.k = "Power" /\ (HasFoldable(e.base) \/ HasFoldable(e.exponent))
    \/ e.k = "Index" /\ HasFoldable(e.index)

AnyFoldable(exprs) == \E i \in DOMAIN exprs : HasFoldable(exprs[i])

\* The statement holds a foldable expression, in itself or in a body.
RECURSIVE StmtHasFoldable(_)
StmtHasFoldable(st) ==
    LET InBody(body) == \E i \in DOMAIN body : StmtHasFoldable(body[i])
    IN  CASE st.k = "Declaration" -> st.size # NoExpr /\ HasFoldable(st.size)
          [] st.k = "Assign" -> HasFoldable(st.expr)
          [] st.k = "IndexAssign" -> HasFoldable(st.index) \/ HasFoldable(st.expr)
          [] st.k = "Print" -> AnyFoldable(st.values)
          [] st.k = "Return" -> AnyFoldable(st.values)
          [] st.k = "Call" -> \E i \in DOMAIN st.args : HasFoldable(st.args[i].value)
          [] st.k = "If" ->
                \/ HasFoldable(st.first.cond) \/ InBody(st.first.body)
                \/ \E i \in DOMAIN st.elifs :
                      HasFoldable(st.elifs[i].cond) \/ InBody(st.elifs[i].body)
                \/ InBody(st.else_body)
          [] st.k = "While" -> HasFoldable(st.cond) \/ InBody(st.body)
          [] st.k = "For" -> HasFoldable(st.start) \/ HasFoldable(st.end) \/ InBody(st.body)
          [] OTHER -> FALSE

ProgramHasFoldable(p) ==
    \/ \E i \in DOMAIN p.statements : StmtHasFoldable(p.statements[i])
    \/ \E i \in DOMAIN p.functions :
          \E j \in DOMAIN p.functions[i].body : StmtHasFoldable(p.functions[i].body[j])

\* C19: after a successful analyze no arithmetic Binary, unary +/- or Power
\* node on numeric literals whose evaluation succeeds is left in any statement
\* of the program: return values, index-assignment index and value, container
\* sizes, conditions, loop bounds and call arguments included.
C19_NothingFoldableLeft ==
    (analyzeCalls >= 1 /\ anaStatus = "ok") => ~ProgramHasFoldable(ast)

\* ---- what analyze() changes in the tree ----
\* `after` is `before` with foldable expressions replaced by their literals.
RECURSIVE ExprOnlyFolded(_, _)
ExprOnlyFolded(before, after) ==
    \/ after = before
    \/ /\ before.k \in {"Binary", "Unary", "Power"}
       /\ after.k = "Number"
       /\ after = _fold_expr(before)
    \/ /\ before.k = "Binary" /\ after.k = "Binary" /\ after.op = before.op
       /\ ExprOnlyFolded(before.left, after.left)
       /\ ExprOnlyFolded(before.right, after.right)
    \/ /\ before.k = "Unary" /\ after.k = "Unary" /\ after.op = before.op
       /\ ExprOnlyFolded(before.right, after.right)
    \/ /\ before.k = "Power" /\ after.k = "Power"
       /\ ExprOnlyFolded(before.base, after.base)
       /\ ExprOnlyFolded(before.exponent, after.exponent)
    \/ /\ before.k = "Index" /\ after.k = "Index" /\ after.name = before.name
       /\ ExprOnlyFolded(before.index, after.index)

ExprsOnlyFolded(before, after) ==
    /\ Len(after) = Len(before)
    /\ \A i \in DOMAIN before : ExprOnlyFolded(before[i], after[i])

RECURSIVE StmtOnlyFolded(_, _)
StmtOnlyFolded(before, after) ==
    LET Bodies(b, a) ==
            Len(a) = Len(b) /\ \A i \in DOMAIN b : StmtOnlyFolded(b[i], a[i])
        Branch(b, a) == ExprOnlyFolded(b.cond, a.cond) /\ Bodies(b.body, a.body)
    IN  /\ after.k = before.k
        /\ CASE before.k = "Declaration" ->
                   /\ [after EXCEPT !.size = before.size] = before
                   /\ (before.size = NoExpr) = (after.size = NoExpr)
                   /\ before.size # NoExpr => ExprOnlyFolded(before.size, after.size)
             [] before.k = "Assign" ->
                   /\ [after EXCEPT !.expr = before.expr] = before
                   /\ ExprOnlyFolded(before.expr, after.expr)
             [] before.k = "IndexAssign" ->
                   /\ after.name = before.name
                   /\ ExprOnlyFolded(before.index, after.index)
                   /\ ExprOnlyFolded(before.expr, after.expr)
             [] before.k \in {"Print", "Return"} ->
                   ExprsOnlyFolded(before.values, after.values)
             [] before.k = "Call" ->
                   /\ after.name = before.name
                   /\ Len(after.args) = Len(before.args)
                   /\ \A i \in DOMAIN before.args :
                         /\ after.args[i].name = before.args[i].name
                         /\ ExprOnlyFolded(before.args[i].value, after.args[i].value)
             [] before.k = "If" ->
                   /\ Branch(before.first, after.first)
                   /\ Len(after.elifs) = Len(before.elifs)
                   /\ \A i \in DOMAIN before.elifs : Branch(before.elifs[i], after.elifs[i])
                   /\ Bodies(before.else_body, after.else_body)
             [] before.k = "While" -> Branch(before, after)
             [] before.k = "For" ->
                   /\ after.var = before.var
                   /\ ExprOnlyFolded(before.start, after.start)
                   /\ ExprOnlyFolded(before.end, after.end)
                   /\ Bodies(before.body, after.body)
             [] OTHER -> after = before

\* The parameter as the parser built it.
ParamKept(before, after) == after = before
\* ... or with the type _register_functions inferred from its default.
ParamTyped(before, after) ==
    \/ after = before
    \/ /\ before.type = NoType /\ before.default # NoExpr
       /\ after.type # NoType
       /\ after = [before EXCEPT !.type = after.type]

\* The trees differ by folded expressions only (when `folds`), with the
\* parameters related by Kept.
ProgramOnlyFolded(before, after, folds, Kept(_, _)) ==
    LET Stmts(b, a) ==
            IF folds
            THEN Len(a) = Len(b) /\ \A i \in DOMAIN b : StmtOnlyFolded(b[i], a[i])
            ELSE a = b
    IN  /\ Stmts(before.statements, after.statements)
        /\ Len(after.functions) = Len(before.functions)
        /\ \A i \in DOMAIN before.functions :
              LET b == before.functions[i]
                  a == after.functions[i]
              IN  /\ a.name = b.name
                  /\ Len(a.params) = Len(b.params)
                  /\ \A j \in DOMAIN b.params : Kept(b.params[j], a.params[j])
                  /\ Stmts(b.body, a.body)

AnalyzeCall == analyzeCalls' = analyzeCalls + 1

\* C20: analyze changes the tree only by constant folding: every difference
\* between the tree handed in and the tree left is a foldable expression
\* replaced by its literal, no parameter (name, type, default) is changed, and
\* when analyze raises the tree is exactly as it was handed in.
C20_OnlyFoldingChangesTree ==
    [][AnalyzeCall =>
          IF anaStatus' = "error" THEN ast' = astIn'
          ELSE ProgramOnlyFolded(astIn', ast', TRUE, ParamKept)]_vars

\* C20 (amended): analyze changes the tree only by constant folding and by
\* writing into a parameter without annotation the type inferred from its
\* default; when analyze raises nothing is folded, and the tree differs
\* from the one handed in by such inferred parameter types at most.
C20_OnlyFoldingAndParamTypes ==
    [][AnalyzeCall =>
          IF anaStatus' = "error" THEN ProgramOnlyFolded(astIn', ast', FALSE, ParamTyped)
          ELSE ProgramOnlyFolded(astIn', ast', TRUE, ParamTyped)]_vars

\* A first analyze has returned, having folded an expression and typed a parameter.
C20_Witness ==
    /\ analyzeCalls = 1 /\ anaStatus = "ok"
    /\ ast.statements # astIn.statements
    /\ \E i \in DOMAIN ast.functions :
          \E j \in DOMAIN ast.functions[i].params :
             ast.functions[i].params[j] # astIn.functions[i].params[j]

\* ---- one Analyzer instance, several analyze calls ----
GlobalNames(stack) == DOMAIN stack[1]

\* C16: an Analyzer instance resets neither its scope stack nor its function
\* table between analyze calls.  A later call on the same instance raises
\* 'already defined' for a function an earlier call registered, accepts a
\* global variable and a function an earlier call bound, and loses no global
\* binding and no signature; a fresh instance holds one empty global scope and
\* an empty function table.
C16_InstanceKeepsTables ==
    [][/\ analyzeCalls = 0 => (env_stack = <<EmptyEnv>> /\ DOMAIN functions = {})
       /\ (AnalyzeCall /\ analyzeCalls >= 1) =>
             /\ GlobalNames(env_stack) \subseteq GlobalNames(env_stack')
             /\ DOMAIN functions \subseteq DOMAIN functions'
             /\ (astIn'.functions # <<>> /\ astIn'.functions[1].name \in DOMAIN functions)
                   => (anaStatus' = "error" /\ anaErr' = "function already defined")
             /\ (astIn' = Program(<<>>, <<PrintStmt(<<Var("x")>>)>>)
                    /\ "x" \in GlobalNames(env_stack))
                   => anaStatus' = "ok"
             /\ (astIn' = Program(<<>>, <<Call("f", <<>>)>>) /\ "f" \in DOMAIN functions)
                   => anaErr' # "undefined function"]_vars

\* The second analyze of a program with one function raised 'already defined'
\* on an instance that holds a global of the first call.
C16_Witness ==
    /\ analyzeCalls = 2
    /\ anaStatus = "error" /\ anaErr = "function already defined"
    /\ Len(astIn.functions) = 1
    /\ "x" \in GlobalNames(env_stack)

\* ---- diagnostics of the parser ----
(***************************************************************************)
(* _comparison_op, step by step  parser.py:371-399                         *)
(***************************************************************************)
\* ---- token lists handed to _cond_cmp ----
CmpWord ==
    [is |-> Word("is", <<"i", "s">>),
     greater |-> Word("greater", <<"g", "r", "e", "a", "t", "e", "r">>),
     less |-> Word("less", <<"l", "e", "s", "s">>),
     than |-> Word("than", <<"t", "h", "a", "n">>),
     or |-> Word("or", <<"o", "r">>),
     equal |-> Word("equal", <<"e", "q", "u", "a", "l">>),
     to |-> WTo,
     not |-> Word("not", <<"n", "o", "t">>)]
SymbolWords ==
    {Word("==", <<"=", "=">>), Word("!=", <<"!", "=">>), Word(">=", <<">", "=">>),
     Word("<=", <<"<", "=">>), Word(">", <<">">>), Word("<", <<"<">>),
     Word("=", <<"=">>), Word("!", <<"!">>)}
\* what can follow the beginning of a phrase
TailWords == {CmpWord[w] : w \in DOMAIN CmpWord \ {"is"}} \cup {WOne}
\* every beginning of every listed phrase, the empty one included
PhrasePrefixes ==
    UNION {{[j \in 1..n |-> CmpWord[seqs[i].seq[j]]] : n \in 0..Len(seqs[i].seq)} :
              i \in DOMAIN seqs}
\* `1 OP ...`, `1 is PHRASE-BEGINNING TAIL`, and lines without an operator
CompareSources(n) ==
    {<<WOne, w>> \o tail : w \in SymbolWords, tail \in SeqsUpTo({WOne}, 1)}
    \cup {<<WOne>> \o tail : tail \in SeqsUpTo({WOne, WTo}, 1)}
    \cup {<<WOne, CmpWord.is>> \o pre \o tail :
              pre \in PhrasePrefixes, tail \in SeqsUpTo(TailWords, n)}
CompareInputs(n) == {Lexed(ws, 1, 1) : ws \in CompareSources(n)}

\* ---- _cond_cmp up to the operator, as a state machine ----
\* `left = self._expression()` has returned; _comparison_op is entered
CmpInit ==
    /\ ptokens \in CompareInputs(MaxTail)
    /\ current = _expression(ptokens, 0).cur
    /\ parsed = <<>>
    /\ parStatus = "comparison"
    /\ parErr = <<>>
    /\ cmpSave = 0 /\ cmpIdx = 0 /\ cmpOp = ""

AtSymbol == \E i \in DOMAIN SymbolOps : _check_kind(ptokens, current, SymbolOps[i].kind)

\* parser.py:372-383: one of the symbolic operators
CmpSymbol ==
    /\ parStatus = "comparison"
    /\ \E i \in DOMAIN SymbolOps :
          /\ _check_kind(ptokens, current, SymbolOps[i].kind)
          /\ cmpOp' = SymbolOps[i].op
    /\ current' = Advanced(ptokens, current)
    /\ parStatus' = "returned"
    /\ UNCHANGED <<ptokens, parsed, parErr, cmpSave, cmpIdx>>
    /\ ParFrame

\* parser.py:384-385: _match_kw("is"); the loop starts at the first phrase and
\* each _try_keywords saves the cursor it finds
CmpIs ==
    /\ parStatus = "comparison"
    /\ ~AtSymbol
    /\ _check_kw(ptokens, current, "is")
    /\ current' = Advanced(ptokens, current)
    /\ cmpSave' = current'
    /\ cmpIdx' = 1
    /\ parStatus' = "phrases"
    /\ UNCHANGED <<ptokens, parsed, parErr, cmpOp>>
    /\ ParFrame

\* parser.py:396-398: one iteration, _try_keywords(seq) having returned r
PhraseTried(r) ==
    /\ current' = r.cur
    /\ IF r.ok
       THEN /\ cmpOp' = seqs[cmpIdx].op
            /\ parStatus' = "returned"
            /\ cmpIdx' = cmpIdx
       ELSE /\ cmpIdx' = cmpIdx + 1
            /\ UNCHANGED <<cmpOp, parStatus>>
CmpPhrase(ok) ==
    /\ parStatus = "phrases"
    /\ cmpIdx <= Len(seqs)
    /\ _try_keywords(ptokens, current, seqs[cmpIdx].seq).ok = ok
    /\ PhraseTried(_try_keywords(ptokens, current, seqs[cmpIdx].seq))
    /\ UNCHANGED <<ptokens, parsed, parErr, cmpSave>>
    /\ ParFrame
CmpPhraseMatches == CmpPhrase(TRUE)
CmpPhraseFails == CmpPhrase(FALSE)

\* parser.py:398-399: no operator, no `is`, or the loop has run out
CmpRaise ==
    /\ \/ parStatus = "comparison" /\ ~AtSymbol /\ ~_check_kw(ptokens, current, "is")
       \/ parStatus = "phrases" /\ cmpIdx > Len(seqs)
    /\ parStatus' = "ParseError"
    /\ parErr' = <<"Expected comparison operator">> \o At(PeekTok(ptokens, current))
    /\ UNCHANGED <<ptokens, current, parsed, cmpSave, cmpIdx, cmpOp>>
    /\ ParFrame

InitCompare == LexIdle /\ DrvIdle /\ AnaIdle /\ AstIdle /\ FoldIdle /\ CmpInit /\ TypIdle /\ GenIdle
NextCompare == CmpSymbol \/ CmpIs \/ CmpPhraseMatches \/ CmpPhraseFails \/ CmpRaise
SpecCompare == InitCompare /\ [][NextCompare]_vars

(***************************************************************************)
(* Properties of the parser                                                *)
(***************************************************************************)
IsDecimalDigit(c) == \E d \in DOMAIN DigitChars : DigitChars[d] = c
\* gui/diagnostics.py:15-27: re.search(r"at (\d+):(\d+)") finds a position
EditorPatternMatches(msg) ==
    \E i \in DOMAIN msg : \E j \in DOMAIN msg :
        /\ msg[i] = " at "
        /\ j > i + 1 /\ j < Len(msg)
        /\ \A k \in (i + 1)..(j - 1) : IsDecimalDigit(msg[k])
        /\ msg[j] = ":"
        /\ IsDecimalDigit(msg[j + 1])

\* C12: every ParseError message carries the position of the offending token
\* as '<message> at <line>:<col>', so the editor's pattern matches it.
C12_ParseErrorsCarryPosition ==
    parStatus = "ParseError" => EditorPatternMatches(parErr)

\* ---- the right-hand side of `set NAME to` ----
\* The statement in hand is `set NAME to ...`.
SetStatementAt(toks, cur) ==
    /\ _check_kw(toks, cur, "set")
    /\ _check_kind(toks, cur + 1, "IDENT")
    /\ _check_kw(toks, cur + 2, "to")

\* C17: in `set NAME to RHS`, `add E to T` parses to Binary(Var T, "+", E) and
\* `sub E from T` / `subtract E from T` to Binary(Var T, "-", E); and every
\* RHS that parses as an ordinary expression (the word after E is not
\* `to`/`from`) parses to that expression's tree, the cursor after it.
C17_AssignmentPhrases ==
    [][(parStatus = "parsing" /\ SetStatementAt(ptokens, current)
           /\ <<current, parStatus>>' # <<current, parStatus>>) =>
          LET rhs == current + 3
              NAME == PeekTok(ptokens, current + 1).lexeme
              E == _expression(ptokens, rhs + 1)
              T == PeekTok(ptokens, E.cur + 1).lexeme
              plain == _expression(ptokens, rhs)
              Phrase(words, kw) ==
                  /\ ~AtEnd(ptokens, rhs) /\ PeekTok(ptokens, rhs).lexeme \in words
                  /\ E.exc = ""
                  /\ _check_kw(ptokens, E.cur, kw)
                  /\ _check_kind(ptokens, E.cur + 1, "IDENT")
              ParsedAs(expr, cur) ==
                  /\ parStatus' = "parsing"
                  /\ parsed' = Append(parsed, Assign(NAME, expr, NoType))
                  /\ current' = cur
          IN  /\ Phrase({"add"}, "to") => ParsedAs(Binary(Var(T), "+", E.node), E.cur + 2)
              /\ Phrase({"sub", "subtract"}, "from")
                    => ParsedAs(Binary(Var(T), "-", E.node), E.cur + 2)
              /\ plain.exc = "" => ParsedAs(plain.node, plain.cur)]_vars

\* ---- the comparison phrase after `is` ----
\* The keywords of the listed phrase i are the tokens from position `at` on.
PhraseAt(toks, at, i) ==
    \A j \in DOMAIN seqs[i].seq :
        /\ at + j <= Len(toks)
        /\ toks[at + j].kind = "KEYWORD"
        /\ toks[at + j].lexeme = seqs[i].seq[j]
\* The listed phrases that match there, and the longest of them.
PhrasesAt(toks, at) == {i \in DOMAIN seqs : PhraseAt(toks, at, i)}
LongestAt(toks, at) ==
    CHOOSE i \in PhrasesAt(toks, at) :
        \A j \in PhrasesAt(toks, at) : Len(seqs[j].seq) <= Len(seqs[i].seq)

\* C18: after `is`, the operator returned is that of the longest listed phrase
\* that matches the following keywords and the cursor is after that phrase;
\* every failed attempt leaves the cursor just after `is`; and when no listed
\* phrase matches, the only way out is the ParseError with the position of
\* the token after `is`.
C18_LongestPhrase ==
    [][parStatus = "phrases" =>
          /\ parStatus' \in {"phrases", "returned", "ParseError"}
          /\ parStatus' = "phrases" => current' = cmpSave
          /\ parStatus' = "returned" =>
                /\ PhrasesAt(ptokens, cmpSave) # {}
                /\ cmpOp' = seqs[LongestAt(ptokens, cmpSave)].op
                /\ current' = cmpSave + Len(seqs[LongestAt(ptokens, cmpSave)].seq)
          /\ parStatus' = "ParseError" =>
                /\ PhrasesAt(ptokens, cmpSave) = {}
                /\ current' = cmpSave
                /\ parErr' = <<"Expected comparison operator">>
                                 \o At(PeekTok(ptokens, cmpSave))]_vars

\* `is greater than or ...` with no `equal to`: the two longer phrases were
\* tried and failed, `greater than` was chosen and the cursor is at `or`.
C18_Witness ==
    /\ parStatus = "returned" /\ cmpSave > 0
    /\ cmpOp = ">" /\ cmpIdx = 5
    /\ current = cmpSave + 2
    /\ _check_kw(ptokens, current, "or")


(***************************************************************************)
(* _expr on one expression  semantic.py:253-333                            *)
(***************************************************************************)
\* The scope stacks an expression is typed in: the global scope after the
\* declarations `make x [as T]`, `make x as list of size 1` and `make y [as T]`,
\* alone or under the scope of a block that declares x again.
TypedScopes ==
    {[n \in ns |-> IF n = "x" THEN tx ELSE ty] :
        ns \in SUBSET VarNames,
        tx \in {TypeInfo(t, NoSize) : t \in {"auto", "int", "float", "string"}}
               \cup {TypeInfo("list", <<1>>)},
        ty \in {TypeInfo(t, NoSize) : t \in {"auto", "int", "float", "string", "bool"}}}
TypedStacks ==
    {<<g>> : g \in TypedScopes}
    \cup {<<g, [n \in {"x"} |-> TypeInfo(t, NoSize)]>> :
             g \in {[n \in {"x"} |-> TypeInfo("string", NoSize)]}, t \in {"auto", "int"}}

TypedLeaves == {Num1, NumFloat, Str, Var("x"), Var("y"), Index("x", Num1)}
TypedOperands ==
    TypedLeaves \cup {Binary(Var("x"), "+", Num1), Power(Var("x"), Num1), BoolExpr}
\* reads at an index written with arithmetic on integer literals: 1+1, 1-1, -1
ConstantIndexReads == {Index("x", i) : i \in {OnePlusOne, OneLessOne, Unary("-", Num1)}}
TypedExprs ==
    TypedOperands \cup ConstantIndexReads
    \cup {Binary(l, op, r) : l \in TypedOperands, r \in TypedOperands,
                              op \in ArithOps \cup {"<"}}
    \cup {Power(l, r) : l \in TypedOperands, r \in TypedOperands}

TypInit ==
    /\ env_stack \in TypedStacks
    /\ functions = [n \in {} |-> NoSig]
    /\ function_depth = 0
    /\ program = <<>>
    /\ regIdx = 1
    /\ fnIdx = 1
    /\ ctl = <<>>
    /\ nodes = 0
    /\ last = [k |-> "None"]
    /\ anaStatus = "running"
    /\ anaErr = ""
    /\ exprIn \in TypedExprs
    /\ exprOut = NotCalled

IsArithmetic(node) == node.k = "Binary" /\ node.op \in ArithOps

\* one call self._expr(node), from entry to return or raise
ExprCall ==
    /\ exprOut = NotCalled
    /\ exprOut' = _expr(env_stack, exprIn)
    /\ UNCHANGED exprIn
    /\ TypFrame
\* semantic.py:295-305
ExprArithmetic == IsArithmetic(exprIn) /\ ExprCall
\* semantic.py:327-332
ExprPower == exprIn.k = "Power" /\ ExprCall
\* semantic.py:255-294, 306-326
ExprOther == ~IsArithmetic(exprIn) /\ exprIn.k # "Power" /\ ExprCall

InitTyping ==
    LexIdle /\ DrvIdle /\ AstIdle /\ FoldIdle /\ ParIdle /\ TypInit /\ GenIdle
NextTyping == ExprArithmetic \/ ExprPower \/ ExprOther
SpecTyping == InitTyping /\ [][NextTyping]_vars

\* The two operands of an arithmetic Binary or a Power node.
TypedLeft(node) == IF node.k = "Power" THEN node.base ELSE node.left
TypedRight(node) == IF node.k = "Power" THEN node.exponent ELSE node.right

\* C21: for every arithmetic Binary and every Power expression whose operands
\* type without error, _expr raises SemanticError unless both operand types are
\* numeric (a type not yet pinned, "auto", counted as numeric, as _is_numeric
\* does), and otherwise returns float if either operand's type is float and
\* int in every other case.
C21_ArithmeticTyping ==
    (exprOut # NotCalled /\ (IsArithmetic(exprIn) \/ exprIn.k = "Power")
       /\ _expr(env_stack, TypedLeft(exprIn)).ok
       /\ _expr(env_stack, TypedRight(exprIn)).ok)
    => LET lt == _expr(env_stack, TypedLeft(exprIn)).t
           rt == _expr(env_stack, TypedRight(exprIn)).t
       IN  /\ exprOut.ok = (_is_numeric(lt) /\ _is_numeric(rt))
           /\ exprOut.ok =>
                 exprOut.t = IF "float" \in {lt, rt} THEN "float" ELSE "int"

(***************************************************************************)
(* Properties of the scope stack                                           *)
(***************************************************************************)
\* The blocks whose body is being walked: every frame of ctl but an `if` frame
\* between two of its branches.
OpenBodies == Cardinality({i \in DOMAIN ctl : ctl[i].kind # "ifjoin"})

\* A statement, or a function, has been analysed to its end without raising:
\* a statement that opens no block, the end of a while or for body, the end
\* of an if statement, the end of a function body.
CompletedStep ==
    /\ anaStatus' = "running"
    /\ \/ last'.k \in {"Declaration", "Input", "Assign", "IndexAssign", "Print", "Return"}
       \/ last'.k = "BlockEnd" /\ last'.kind \in {"while", "for", "else", "fn"}
       \/ last'.k = "EndIf"

\* C22: during analyze() on a fresh Analyzer the scope stack always holds the
\* global scope and function_depth is never negative; while no error has been
\* raised the stack holds the global scope and one scope per open body, so
\* whenever a statement or a function has been analysed without raising the
\* depth is what it was before it; a successful analyze ends with depth 1 and
\* function_depth 0.
C22_ScopeStackBalanced ==
    /\ [](/\ Len(env_stack) >= 1
          /\ function_depth >= 0
          /\ anaStatus \in {"running", "ok"} =>
                /\ Len(env_stack) = 1 + OpenBodies
                /\ function_depth = IF InFunctionBody THEN 1 ELSE 0
          /\ anaStatus = "ok" => Len(env_stack) = 1 /\ function_depth = 0)
    /\ [][CompletedStep => Len(env_stack') = 1 + Len(ctl') /\ OpenBodies' = Len(ctl')]_vars

\* A function body holding a block has been analysed to its end.
C22_Witness ==
    /\ anaStatus = "running"
    /\ last.k = "BlockEnd" /\ last.kind = "fn"
    /\ nodes >= 2
    /\ Len(env_stack) = 1 /\ function_depth = 0

(***************************************************************************)
(* Properties of calls with named and positional arguments                 *)
(***************************************************************************)
\* The parameter the i-th argument of a call binds: the one it names, or the
\* one at its position among the positional arguments.
BoundParam(args, i, params) ==
    IF args[i].name # NoName THEN args[i].name
    ELSE params[PositionalBefore(args, i)].name

\* C25: in every call the analyzer accepts, no two arguments bind the same
\* parameter of the callee, whatever the order of named and positional
\* arguments.
C25_OneArgumentPerParameter ==
    (/\ last.k = "Call"
     /\ FnGet(functions, last.name) # NoSig
     /\ anaStatus = "running")
        => LET params == FnGet(functions, last.name).params
           IN  \A i, j \in DOMAIN last.args :
                   i < j => BoundParam(last.args, i, params) # BoundParam(last.args, j, params)

(***************************************************************************)
(* Properties of assignments in inner scopes                               *)
(***************************************************************************)
\* An accepted assignment without a type, in an inner scope, to a name bound
\* in an enclosing scope and not in the inner one.
OuterAssignStep ==
    /\ UntypedAssignStep
    /\ anaStatus' = "running"
    /\ Len(env_stack) > 1
    /\ last'.name \notin DOMAIN _env(env_stack)

\* C27: an untyped assignment to a name bound only in an enclosing scope
\* leaves the names bound in the current scope unchanged, and a declaration
\* `make NAME` in the current scope is accepted after it iff it was before.
C27_AssignLeavesInnerScope ==
    [][OuterAssignStep =>
         /\ DOMAIN _env(env_stack') = DOMAIN _env(env_stack)
         /\ DoDeclaration(env_stack', Declaration(last'.name, NoType, NoExpr)).ok
              = DoDeclaration(env_stack, Declaration(last'.name, NoType, NoExpr)).ok]_vars

(***************************************************************************)
(* Function bodies and top-level statements                                *)
(***************************************************************************)
\* The analyzer on programs of several functions whose bodies, and whose
\* top-level statements, declare, assign and print.
BodyPrograms == SeqsUpTo(CoreFunctions, MaxFns)
InitBodies ==
    LexIdle /\ DrvIdle /\ AnaInitWith(BodyPrograms) /\ AstIdle /\ FoldIdle /\ ParIdle
    /\ TypIdle /\ GenIdle
NextBodies ==
    \/ RegisterFunction \/ EnterFunction \/ ExitFunction
    \/ StmtDeclaration \/ StmtAssign \/ StmtPrint
    \/ Finish
SpecBodies == InitBodies /\ [][NextBodies]_vars

StatementKinds == {"Declaration", "Input", "Assign", "IndexAssign", "Print", "Return"}
\* the variables a Print statement reads directly
PrintedVars(node) == {node.values[i].name : i \in {j \in DOMAIN node.values : node.values[j].k = "Var"}}

\* C28: on a fresh Analyzer every function body is analysed before any
\* top-level statement; before and after each body the scope stack is the
\* empty global scope alone, and during a body the global scope is still
\* empty, so a body that reads a variable bound neither by a parameter nor in
\* the body raises "undefined variable", and what a body binds is visible
\* neither in a later body nor at top level.
C28_BodiesBeforeStatements ==
    /\ (last.k \in StatementKinds /\ ~InFunctionBody) => fnIdx > Len(program)
    /\ (anaStatus = "running" /\ ctl = <<>> /\ fnIdx <= Len(program))
          => env_stack = <<EmptyEnv>>
    /\ (last.k = "BlockEnd" /\ last.kind = "fn") => env_stack = <<EmptyEnv>>
    /\ InFunctionBody => env_stack[1] = EmptyEnv
    /\ (InFunctionBody /\ last.k = "Print"
          /\ \E n \in PrintedVars(last) : Unbound(Tail(env_stack), n))
          => (anaStatus = "error" /\ anaErr = "undefined variable")

\* The second function body reads a variable that is no parameter of it, after
\* the first body has been analysed.
C28_Witness ==
    /\ InFunctionBody /\ fnIdx = 2 /\ nodes >= 2
    /\ last.k = "Print" /\ last.values = <<Var("y")>>
    /\ anaErr = "undefined variable"

(***************************************************************************)
(* Properties of compile-time-constant indices                             *)
(***************************************************************************)
\* An expression built only from integer literals, unary sign and + - *.
RECURSIVE IsConstantInt(_)
IsConstantInt(e) ==
    CASE e.k = "Number" -> _literal_int_value(e) # <<>>
      [] e.k = "Unary" -> e.op \in {"+", "-"} /\ IsConstantInt(e.right)
      [] e.k = "Binary" ->
            e.op \in {"+", "-", "*"} /\ IsConstantInt(e.left) /\ IsConstantInt(e.right)
      [] OTHER -> FALSE
\* its value
RECURSIVE ConstantInt(_)
ConstantInt(e) ==
    CASE e.k = "Number" -> _literal_int_value(e)[1]
      [] e.k = "Unary" -> IF e.op = "-" THEN 0 - ConstantInt(e.right) ELSE ConstantInt(e.right)
      [] e.k = "Binary" ->
            CASE e.op = "+" -> ConstantInt(e.left) + ConstantInt(e.right)
              [] e.op = "-" -> ConstantInt(e.left) - ConstantInt(e.right)
              [] e.op = "*" -> ConstantInt(e.left) * ConstantInt(e.right)

\* C26: a read of a container of known literal size n at an index built only
\* from integer literals and arithmetic operators is accepted only if the
\* value of the index lies in [0, n).
C26_ConstantIndexInBounds ==
    (/\ exprOut # NotCalled /\ exprOut.ok
     /\ exprIn.k = "Index"
     /\ IsConstantInt(exprIn.index)
     /\ _lookup(env_stack, exprIn.name).size # NoSize)
        => /\ ConstantInt(exprIn.index) >= 0
           /\ ConstantInt(exprIn.index) < _lookup(env_stack, exprIn.name).size[1]

(***************************************************************************)
(* Properties of folding and static types                                  *)
(***************************************************************************)
\* C29: when _fold_expr has replaced a Binary, Unary or Power expression the
\* analyzer accepts by a literal, the literal is float-valued (its lexeme
\* holds ".") iff the analyzer typed the original expression float.
C29_FoldKeepsType ==
    (/\ foldCalls >= 1
     /\ foldIn.k \in {"Binary", "Unary", "Power"}
     /\ foldTree.k = "Number"
     /\ _expr(<<EmptyEnv>>, foldIn).ok)
        => (_is_float_literal(foldTree.value) <=> _expr(<<EmptyEnv>>, foldIn).t = "float")

(***************************************************************************)
(* Properties of statement boundaries                                      *)
(***************************************************************************)
\* The first i tokens of a token list as a token list of their own, and the
\* tokens after them.
TokensBefore(toks, i) == Append(SubSeq(toks, 1, i), toks[Len(toks)])
TokensAfter(toks, i) == SubSeq(toks, i + 1, Len(toks))
\* The token list parses as exactly one statement.
OneStatement(toks) ==
    /\ ~AtEnd(toks, 0)
    /\ _statement(toks, 0).exc = ""
    /\ AtEnd(toks, _statement(toks, 0).cur)

\* C23: when the tokens before some position parse as exactly one statement
\* S1 and the tokens after it as exactly one statement S2, parse() returns the
\* two statements [S1, S2].
C23_StatementBoundaries ==
    parStatus \notin {"idle", "parsing"} =>
        \A i \in 1..(Len(ptokens) - 2) :
            (OneStatement(TokensBefore(ptokens, i)) /\ OneStatement(TokensAfter(ptokens, i)))
                => /\ parStatus = "returned"
                   /\ parsed = <<_statement(TokensBefore(ptokens, i), 0).node,
                                 _statement(TokensAfter(ptokens, i), 0).node>>

(***************************************************************************)
(* Properties of if statements                                             *)
(***************************************************************************)
\* The tokens before the `else` at position i closed by the last `end if`,
\* and the tokens between that `else` and the last `end if`.
OuterIfTokens(toks, i) == SubSeq(toks, 1, i - 1) \o SubSeq(toks, Len(toks) - 2, Len(toks))
ElseTokens(toks, i) == Append(SubSeq(toks, i + 1, Len(toks) - 3), toks[Len(toks)])
IsOneIf(toks) == OneStatement(toks) /\ _statement(toks, 0).node.k = "If"
\* `if C then B else IF end if` where IF is a complete if statement and
\* `if C then B end if` is one too
ElseHoldsIf(toks, i) ==
    /\ i > 1 /\ i < Len(toks) - 3
    /\ _check_kw(toks, i - 1, "else")
    /\ _check_pair_end(toks, Len(toks) - 3, "if")
    /\ IsOneIf(ElseTokens(toks, i))
    /\ IsOneIf(OuterIfTokens(toks, i))
    /\ _statement(OuterIfTokens(toks, i), 0).node.elifs = <<>>
    /\ _statement(OuterIfTokens(toks, i), 0).node.else_body = NoBody

\* C30: when the else block of an if statement is one complete
\* `if ... end if` statement, parse() returns one If whose else body holds
\* that nested If and whose first branch is the outer statement's.
C30_ElseHoldsNestedIf ==
    parStatus \notin {"idle", "parsing"} =>
        \A i \in DOMAIN ptokens :
            ElseHoldsIf(ptokens, i)
                => /\ parStatus = "returned"
                   /\ parsed =
                        <<If(_statement(OuterIfTokens(ptokens, i), 0).node.first, <<>>,
                             <<_statement(ElseTokens(ptokens, i), 0).node>>)>>

(***************************************************************************)
(* Properties of the generated scopes                                      *)
(***************************************************************************)
\* The block a line's declarations live in: the block a `{` line opens, else
\* the block the line stands in.
DeclaredDepth(ln) == IF ln.form = "open" THEN ln.indent + 1 ELSE ln.indent
\* Line i stands in the block where an earlier line declared `name`, or in a
\* block nested in it: no line between them stands outside that block.
DeclaredAt(lns, i, name) ==
    \E j \in 1..(i - 1) :
        /\ name \in lns[j].declares
        /\ \A k \in (j + 1)..i : lns[k].indent >= DeclaredDepth(lns[j])

=============================================================================
